---- MODULE Spec2Model ----
(***************************************************************************)
(* Resume analysis pipeline of app/services/gemini_service.py:             *)
(* the Model Invoker (_generate_content_async), the response parsers, the  *)
(* text/vision routing of analyze_resume_complete, the readiness           *)
(* assessment and the semaphore-bounded batch_analyze_resumes.             *)
(*                                                                         *)
(* Texts are sequences of tokens.  Scores on the 0..1 scale (confidence)   *)
(* are kept in units of 1/10000: 0.7 is 7000, 0.1 is 1000; a double one    *)
(* rounding step above or below such a value is one unit away from it     *)
(* (0.7000000000000001 is 7001).  Scores on the 0..100 scale are kept as   *)
(* integers.  Python's None is the string "None".                          *)
(***************************************************************************)
EXTENDS Integers, Sequences, FiniteSets, TLC

\* ------------------------------------------------------------------ bounds
NumKeys == 4        \* largest batch submitted
MaxLen == 4         \* longest provider response text, in tokens
MaxChars == 4       \* longest raw text cleaned, in characters

\* ------------------------------------------------------- program constants
max_concurrent == 3
max_retries == 3
initial_retry_delay == 1
ROUTING_THRESHOLD == 7000

None == "None"
TEXT_MODEL == "gemini-1.5-flash"
VISION_MODEL == "gemini-1.5-pro"

\* ------------------------------------------------------------ text tokens
WS == " "
FENCE_JSON == "<fence>json"   \* three backquotes followed by json
FENCE == "<fence>"            \* three backquotes
LBRACE == "{"
RBRACE == "}"
ARRAY == "[]"
\* a JSON array of four strings, the names of the required readiness fields
QA_KEYS_ARRAY == "[qa keys]"
PROSE == "prose"

\* A member token stands for one `"key": value` pair of a JSON object
\* (with its separating comma).
MemberTokens ==
  {"os80", "os150", "cs900", "cs1500", "yrs5", "yrs-1", "lvl_senior", "lvl_guru",
   "skills_ok", "skills_nonstr", "pe_x", "pm_x",
   "qs70", "qs170", "qa1", "rec1"}

NonStr == "<int 7>"   \* a list element that is not a Python str

MemberKey(tok) ==
  CASE tok \in {"os80", "os150"} -> "overall_score"
    [] tok \in {"cs900", "cs1500"} -> "confidence_score"
    [] tok \in {"yrs5", "yrs-1"} -> "experience_years"
    [] tok \in {"lvl_senior", "lvl_guru"} -> "experience_level"
    [] tok \in {"skills_ok", "skills_nonstr"} -> "skills_extracted"
    [] tok = "pe_x" -> "parsing_error"
    [] tok = "pm_x" -> "processing_method"
    [] tok \in {"qs70", "qs170"} -> "qa_readiness_score"
    [] tok = "qa1" -> "question_assessments"
    [] tok = "rec1" -> "interview_recommendations"

MemberValue(tok) ==
  CASE tok = "os80" -> 80
    [] tok = "os150" -> 150
    [] tok = "cs900" -> 9000
    [] tok = "cs1500" -> 15000
    [] tok = "yrs5" -> 5
    [] tok = "yrs-1" -> -1
    [] tok = "lvl_senior" -> "senior"
    [] tok = "lvl_guru" -> "guru"
    [] tok = "skills_ok" -> <<"python">>
    [] tok = "skills_nonstr" -> <<NonStr>>
    [] tok = "pe_x" -> "reported by the model"
    [] tok = "pm_x" -> "model_method"
    [] tok = "qs70" -> 70
    [] tok = "qs170" -> 170
    [] tok = "qa1" -> <<"q1: good">>
    [] tok = "rec1" -> <<"practice system design">>

\* ------------------------------------------------------ str methods on texts
\* drop the leading run of whitespace
lstrip(s) ==
  LET n == CHOOSE i \in 0..Len(s) :
             /\ \A j \in 1..i : s[j] = WS
             /\ i = Len(s) \/ s[i + 1] # WS
  IN SubSeq(s, n + 1, Len(s))

\* drop the trailing run of whitespace
rstrip(s) ==
  LET n == CHOOSE i \in 0..Len(s) :
             /\ \A j \in (i + 1)..Len(s) : s[j] = WS
             /\ i = 0 \/ s[i] # WS
  IN SubSeq(s, 1, n)

strip(s) == rstrip(lstrip(s))

\* the json fence also starts with the bare fence
startswith(s, prefix) ==
  /\ s # <<>>
  /\ \/ Head(s) = prefix
     \/ prefix = FENCE /\ Head(s) = FENCE_JSON

endswith(s, suffix) ==
  s # <<>> /\ s[Len(s)] = suffix

\* gemini_service.py:731-740 -- strip, drop a leading and a trailing fence
StripFences(response_text) ==
  LET c1 == strip(response_text)
      c2 == IF startswith(c1, FENCE_JSON) THEN Tail(c1)
            ELSE IF startswith(c1, FENCE) THEN Tail(c1)
            ELSE c1
  IN IF endswith(c2, FENCE) THEN SubSeq(c2, 1, Len(c2) - 1) ELSE c2

\* ------------------------------------------------------------- json.loads
\* the dict of an object's members: of two members with one key the later wins
DictOf(toks) ==
  LET members == {i \in DOMAIN toks : toks[i] # WS}
  IN [key \in {MemberKey(toks[i]) : i \in members} |->
        MemberValue(toks[CHOOSE i \in members :
                           /\ MemberKey(toks[i]) = key
                           /\ \A j \in members : j > i => MemberKey(toks[j]) # key])]

\* The value a text denotes: an object (dict), a non-object value, or a
\* JSONDecodeError.  Whitespace around the value and between members is
\* skipped; anything after the value is "Extra data".
json_loads(s) ==
  LET v == strip(s)
  IN IF v = <<>>
       THEN [kind |-> "error", dict |-> <<>>, msg |-> "Expecting value"]
     ELSE IF v = <<ARRAY>>
       THEN [kind |-> "array", dict |-> <<>>, msg |-> "", items |-> <<>>]
     ELSE IF v = <<QA_KEYS_ARRAY>>
       THEN [kind |-> "array", dict |-> <<>>, msg |-> "",
             items |-> <<"qa_readiness_score", "question_assessments",
                         "interview_recommendations", "overall_assessment">>]
     ELSE IF /\ Len(v) >= 2
             /\ v[1] = LBRACE
             /\ v[Len(v)] = RBRACE
             /\ \A i \in 2..(Len(v) - 1) : v[i] \in MemberTokens \cup {WS}
       THEN [kind |-> "object", dict |-> DictOf(SubSeq(v, 2, Len(v) - 1)), msg |-> ""]
     ELSE IF v[1] \in {LBRACE, ARRAY, QA_KEYS_ARRAY}
       THEN [kind |-> "error", dict |-> <<>>, msg |-> "Extra data or unterminated value"]
     ELSE [kind |-> "error", dict |-> <<>>, msg |-> "Expecting value"]

\* ------------------------------------------------- outcomes of a call
Return(v) == [raised |-> FALSE, value |-> v]
Raise(exc, detail) == [raised |-> TRUE, exc |-> exc, detail |-> detail]

\* ---------------------------------------------- _parse_analysis_response
required_fields ==
  [overall_score |-> 50,
   skills_extracted |-> <<>>,
   experience_years |-> 0,
   experience_level |-> "entry",
   education |-> <<>>,
   previous_roles |-> <<>>,
   key_achievements |-> <<>>,
   analysis_summary |-> "Resume analysis completed",
   strengths |-> <<>>,
   areas_for_improvement |-> <<>>,
   confidence_score |-> 5000,
   contact_info |-> <<>>]

ParseFailureData(msg) ==
  [overall_score |-> 25,
   skills_extracted |-> <<>>,
   experience_years |-> 0,
   experience_level |-> "entry",
   education |-> <<>>,
   previous_roles |-> <<>>,
   key_achievements |-> <<>>,
   analysis_summary |-> "Analysis parsing failed - manual review required",
   strengths |-> <<>>,
   areas_for_improvement |-> <<"Resume analysis needs manual review">>,
   confidence_score |-> 1000,
   contact_info |-> <<>>,
   parsing_error |-> "JSON parsing failed: " \o msg]

\* a backfill that assigns the default whether the field is present or not
Backfill_overwrite(data, defaults) == defaults @@ data

\* for field in required_fields: if field not in data: data[field] = default
Backfill(data, defaults) == data @@ defaults

_parse_analysis_response(response_text) ==
  LET j == json_loads(StripFences(response_text))
  IN IF j.kind = "error" THEN Return(ParseFailureData(j.msg))
     ELSE IF j.kind = "object" THEN Return(Backfill(j.dict, required_fields))
     ELSE Raise("TypeError", "object does not support item assignment")

\* ------------------------------------------- _parse_qa_assessment_response
qa_required_fields ==
  [qa_readiness_score |-> 0,
   question_assessments |-> <<>>,
   interview_recommendations |-> <<>>,
   overall_assessment |-> "Assessment completed"]

QaParseFailureData(msg) ==
  [qa_readiness_score |-> 0,
   question_assessments |-> <<>>,
   interview_recommendations |-> <<"Manual assessment required due to parsing error">>,
   overall_assessment |-> "Assessment parsing failed",
   parsing_error |-> msg]

\* a Python list as a value handed on by the parsing step
JsonList(items) == [json_list |-> items]
IsList(v) == "json_list" \in DOMAIN v

\* `field not in assessment_data` is false for a list that has the field's
\* name as an element: a list with all four names is returned as it is
_parse_qa_assessment_response(response_text) ==
  LET j == json_loads(StripFences(response_text))
  IN IF j.kind = "error" THEN Return(QaParseFailureData(j.msg))
     ELSE IF j.kind = "object" THEN Return(Backfill(j.dict, qa_required_fields))
     ELSE IF \A field \in DOMAIN qa_required_fields :
               \E i \in DOMAIN j.items : j.items[i] = field
       THEN Return(JsonList(j.items))
     ELSE Raise("TypeError", "object does not support item assignment")

\* ------------------------------------------------ ResumeAnalysisResult
CtorDefaults ==
  [overall_score |-> 0,
   skills_extracted |-> <<>>,
   experience_years |-> 0,
   experience_level |-> "entry",
   education |-> <<>>,
   previous_roles |-> <<>>,
   key_achievements |-> <<>>,
   analysis_summary |-> "",
   strengths |-> <<>>,
   areas_for_improvement |-> <<>>,
   confidence_score |-> 0,
   contact_info |-> <<>>,
   qa_readiness_score |-> 0,
   question_predictions |-> <<>>,
   interview_recommendations |-> <<>>,
   job_match_score |-> 0,
   job_specific_strengths |-> <<>>,
   job_specific_gaps |-> <<>>,
   processing_method |-> "text_analysis",
   parsing_error |-> None]

ResultFields == DOMAIN CtorDefaults

\* self.f = data.get(f, default) for every declared field; other keys of
\* data are dropped
ResumeAnalysisResult(data) ==
  [f \in ResultFields |-> IF f \in DOMAIN data THEN data[f] ELSE CtorDefaults[f]]

\* data.get(key, default)
Get(data, key, default) == IF key \in DOMAIN data THEN data[key] ELSE default

\* analysis_data["processing_method"] = method
SetItem(data, key, v) == (key :> v) @@ data

\* str(e): an HTTPException prints as "<status>: <detail>"
Str(e) == IF e.exc = "HTTPException" THEN "500: " \o e.detail ELSE e.detail

ProviderError == Raise("ProviderError", "provider call failed")

\* ------------------------------------------------------------ routing
\* a routing test that sends a confidence of exactly 0.7 to the vision path
Route_inclusive(extraction_result) ==
  IF extraction_result.needs_vlm_processing
     \/ extraction_result.confidence <= ROUTING_THRESHOLD
    THEN "vision"
    ELSE "text"

\* analyze_resume_complete: needs_vlm_processing or confidence < 0.7
Route(extraction_result) ==
  IF extraction_result.needs_vlm_processing
     \/ extraction_result.confidence < ROUTING_THRESHOLD
    THEN "vision"
    ELSE "text"

Method(path) ==
  IF path = "text" THEN "gemini_text_analysis" ELSE "gemini_vision_analysis"

\* what the chosen path hands to the provider
Request(path, extraction_result, file_path) ==
  IF path = "text"
    THEN [model |-> TEXT_MODEL, input |-> "extracted_text", payload |-> extraction_result.text]
    ELSE [model |-> VISION_MODEL, input |-> "file", payload |-> file_path]

\* except Exception in analyze_resume_text / analyze_resume_vision
path_except(path, e) ==
  Raise("HTTPException",
        (IF path = "text" THEN "Resume analysis failed: " ELSE "Vision analysis failed: ")
          \o Str(e))

\* except Exception in analyze_resume_complete
complete_except(e) ==
  Raise("HTTPException", "Complete resume analysis failed: " \o Str(e))

\* analyze_resume_text / analyze_resume_vision from the parsing step's outcome on
AnalysisOutcome(path, p) ==
  IF p.raised THEN path_except(path, p)
  ELSE Return(ResumeAnalysisResult(SetItem(p.value, "processing_method", Method(path))))

\* --------------------------------------------------- assess_qa_readiness
QaUnavailable ==
  [qa_readiness_score |-> 0,
   question_assessments |-> <<>>,
   interview_recommendations |-> <<"Gemini not available for Q&A assessment">>,
   overall_assessment |-> "Q&A assessment unavailable",
   error |-> "Gemini not available"]

QaErrorDict(msg) ==
  [qa_readiness_score |-> 0,
   question_assessments |-> <<>>,
   interview_recommendations |-> <<"Manual assessment required due to error">>,
   overall_assessment |-> "Assessment failed",
   error |-> msg]

\* an except clause that lets the exception through
assess_except_reraise(e) == e

\* except Exception in assess_qa_readiness
assess_except(e) == Return(QaErrorDict(Str(e)))

\* PromptService.get_gemini_qa_assessment_prompt: ", ".join(skills[:10])
\* raises TypeError on a non-str element; get_prompt_content itself falls
\* back to the literal template
QaPrompt(ra) ==
  LET skills == ra.skills_extracted
  IN IF \E i \in 1..Len(skills) : i <= 10 /\ skills[i] = NonStr
       THEN Raise("TypeError", "sequence item: expected str instance")
       ELSE Return("qa prompt")

\* assess_qa_readiness from the parsing step's outcome on
QaOutcome(p) ==
  IF p.raised THEN assess_except(p) ELSE p

\* analyze_resume_complete lines 423-425
ApplyQa(result, qa) ==
  [result EXCEPT
     !.qa_readiness_score = Get(qa, "qa_readiness_score", 0),
     !.question_predictions = Get(qa, "question_assessments", <<>>),
     !.interview_recommendations = Get(qa, "interview_recommendations", <<>>)]

\* if job_context and hasattr(job_context, 'questions') and job_context.questions
WantsQa(job) == job.present /\ job.questions # <<>>

\* ---------------------------------------------------- batch: analyze_single
error_data(e) ==
  [overall_score |-> 0,
   skills_extracted |-> <<>>,
   experience_years |-> 0,
   experience_level |-> "entry",
   education |-> <<>>,
   previous_roles |-> <<>>,
   key_achievements |-> <<>>,
   analysis_summary |-> "Analysis failed: " \o Str(e),
   strengths |-> <<>>,
   areas_for_improvement |-> <<"Manual review required">>,
   confidence_score |-> 0,
   contact_info |-> <<>>,
   processing_method |-> "batch_analysis_failed",
   error |-> Str(e)]

\* analyze_single without its except clause: the exception reaches gather
analyze_single_uncaught(file_key, outcome) ==
  IF outcome.raised THEN outcome
  ELSE Return([file_key |-> file_key, analysis |-> outcome.value])

\* the try/except of analyze_single around analyze_resume_complete
analyze_single(file_key, outcome) ==
  IF outcome.raised
    THEN Return([file_key |-> file_key, analysis |-> ResumeAnalysisResult(error_data(outcome))])
    ELSE Return([file_key |-> file_key, analysis |-> outcome.value])

\* asyncio.Semaphore
\* an admission test that is off by one
CanAcquire_off_by_one(value) == value >= 0

CanAcquire(value) == value > 0
Acquire(value) == value - 1

\* a release that is skipped when the block failed
Release_on_success_only(value, outcome) ==
  IF outcome.raised THEN value ELSE value + 1

\* __aexit__ of `async with semaphore`, whatever the block did
Release(value, outcome) == value + 1

\* a delay that stays the same from one attempt to the next
NextDelay_constant(delay) == delay

\* retry_delay *= 2
NextDelay(delay) == delay * 2

\* a retry test that allows one attempt too many
ShouldRetry_once_more(a) == a < max_retries

\* a retry test that gives up one attempt early
ShouldRetry_one_fewer(a) == a < max_retries - 2

\* for attempt in range(max_retries) ... if attempt < max_retries - 1
ShouldRetry(a) == a < max_retries - 1

\* "Process results": skip exceptions, store the others under their key
Collect(results, n) ==
  LET stored == {i \in 1..n : ~results[i].raised}
  IN [file_key \in {results[i].value.file_key : i \in stored} |->
        results[CHOOSE i \in stored :
                  /\ results[i].value.file_key = file_key
                  /\ \A j \in stored :
                       j > i => results[j].value.file_key # file_key].value.analysis]

\* ----------------------------------------------------- text extraction
\* text_extraction.py looks at a text only through its length, its word count
\* and its regular-expression matches, so a text is the record of these:
\*   length          len(text)
\*   words           len(text.split())
\*   keywords        the lower-cased words of the text that occur in one of
\*                   the RESUME_SECTION_PATTERNS
\*   email, phone    whether the e-mail / phone pattern matches
\*   special         len(re.findall(r'[^\w\s]', text))
\*   removable       characters _clean_text drops (runs of whitespace beyond
\*                   the first character, leading and trailing whitespace)
MIN_TEXT_LENGTH == 100
MIN_WORD_COUNT == 20
MIN_CONFIDENCE_THRESHOLD == 7000
RESUME_SECTION_PATTERNS ==
  << {"experience", "education", "skills", "summary", "objective", "employment",
      "work history"},
     {"projects", "achievements", "certifications", "awards", "publications"},
     {"contact", "email", "phone", "address", "linkedin"} >>

\* for pattern in RESUME_SECTION_PATTERNS: if re.search(pattern, text, re.IGNORECASE)
resume_pattern_matches(text) ==
  Cardinality({ i \in 1..Len(RESUME_SECTION_PATTERNS) :
                  RESUME_SECTION_PATTERNS[i] \cap text.keywords # {} })

EmptyText ==
  [length |-> 0, words |-> 0, keywords |-> {}, email |-> FALSE,
   phone |-> FALSE, special |-> 0, removable |-> 0]

_clean_text(text) ==
  IF text.length = 0 THEN EmptyText
  ELSE [text EXCEPT !.length = @ - text.removable, !.removable = 0]

Min(a, b) == IF a < b THEN a ELSE b
Max(a, b) == IF a > b THEN a ELSE b

\* IEEE-754 double additions of _assess_text_quality whose rounded result is
\* the double next above / next below the decimal sum, keyed by the operands
\* (0.55 + 0.05 is 0.6000000000000001, 0.7 + 0.1 is 0.7999999999999999)
RoundedUp ==
  { <<4000, -1000>>, <<4333, -1000>>, <<5500, -1000>>, <<5500, 500>>,
    <<5833, -1000>>, <<5833, 500>>, <<6166, 500>>, <<6833, 500>>,
    <<7665, -1000>>, <<7665, 500>>, <<7666, -1000>>, <<7999, -1000>>,
    <<7999, 500>>, <<8000, -1000>>, <<8999, 500>> }

RoundedDown ==
  { <<3000, -1000>>, <<3500, -1000>>, <<3500, 500>>, <<4833, -1000>>,
    <<6666, 1000>>, <<7000, 1000>> }

\* confidence += y (confidence -= 0.1 is y = -1000)
FloatAdd(x, y) ==
  x + y + (IF <<x, y>> \in RoundedUp THEN 1
           ELSE IF <<x, y>> \in RoundedDown THEN -1 ELSE 0)

\* a scorer without the word-count floor
_assess_text_quality_no_word_floor(text) ==
  IF text.length = 0 \/ text.length < MIN_TEXT_LENGTH THEN 0
  ELSE Min(Max(3000 + (resume_pattern_matches(text) * 4000) \div Len(RESUME_SECTION_PATTERNS), 0), 10000)

_assess_text_quality(text) ==
  IF text.length = 0 \/ text.length < MIN_TEXT_LENGTH THEN 0
  ELSE IF text.words < MIN_WORD_COUNT THEN 2000
  ELSE
    LET pattern_score ==
          Min((resume_pattern_matches(text) * 10000) \div Len(RESUME_SECTION_PATTERNS), 10000)
        base == FloatAdd(3000, (pattern_score * 4) \div 10)
        long == IF text.length > 500 THEN FloatAdd(base, 1000) ELSE base
        wordy == IF text.words > 100 THEN FloatAdd(long, 1000) ELSE long
        with_email == IF text.email THEN FloatAdd(wordy, 500) ELSE wordy
        with_phone == IF text.phone THEN FloatAdd(with_email, 500) ELSE with_email
        confidence == IF 10 * text.special > text.length
                        THEN FloatAdd(with_phone, -1000) ELSE with_phone
    IN Min(Max(confidence, 0), 10000)

\* the counts of the "Batch analysis completed" log line and of the batch
\* outcome written to the tracking span
BatchOutcome(analysis_results, batch_size) ==
  [batch_size |-> batch_size,
   successful_analyses |-> Cardinality(DOMAIN analysis_results),
   failed_analyses |-> batch_size - Cardinality(DOMAIN analysis_results)]

\* ------------------------------------------------------------ inputs
ExtractionInputs ==
  { [text |-> <<"resume", "text">>, confidence |-> c, needs_vlm_processing |-> v] :
      c \in {0, 6999, 7000, 9500}, v \in BOOLEAN }

JobContexts ==
  { [present |-> FALSE, questions |-> <<>>],
    [present |-> TRUE, questions |-> <<>>],
    [present |-> TRUE, questions |-> <<"q1", "q2">>] }

\* provider responses of the pipeline runs
R_good == <<FENCE_JSON, LBRACE, "os80", "cs900", "lvl_senior", "skills_ok", RBRACE, FENCE>>
R_empty == <<LBRACE, RBRACE>>
R_range == <<LBRACE, "os150", "lvl_guru", "yrs-1", "cs1500", RBRACE>>
R_nonstr == <<WS, LBRACE, "skills_nonstr", RBRACE, WS>>
R_prose == <<PROSE, LBRACE, "os80", RBRACE>>
R_trunc == <<LBRACE, "os80">>
R_array == <<ARRAY>>

Q_good == <<LBRACE, "qs70", "qa1", "rec1", RBRACE>>
Q_empty == <<FENCE, LBRACE, RBRACE, FENCE>>
Q_range == <<LBRACE, "qs170", RBRACE>>
Q_prose == <<PROSE>>
Q_array == <<ARRAY>>
Q_keys == <<QA_KEYS_ARRAY>>

\* the parsing step tabulated over the responses of the pipeline runs
PipelineResponses == {R_good, R_empty, R_range, R_nonstr, R_prose, R_trunc, R_array}
PipelineQaResponses == {Q_good, Q_empty, Q_range, Q_prose, Q_array, Q_keys}
ParsedAnalysis ==
  (R_good :> _parse_analysis_response(R_good))
    @@ (R_empty :> _parse_analysis_response(R_empty))
    @@ (R_range :> _parse_analysis_response(R_range))
    @@ (R_nonstr :> _parse_analysis_response(R_nonstr))
    @@ (R_prose :> _parse_analysis_response(R_prose))
    @@ (R_trunc :> _parse_analysis_response(R_trunc))
    @@ (R_array :> _parse_analysis_response(R_array))
ParsedQa ==
  (Q_good :> _parse_qa_assessment_response(Q_good))
    @@ (Q_empty :> _parse_qa_assessment_response(Q_empty))
    @@ (Q_range :> _parse_qa_assessment_response(Q_range))
    @@ (Q_prose :> _parse_qa_assessment_response(Q_prose))
    @@ (Q_array :> _parse_qa_assessment_response(Q_array))
    @@ (Q_keys :> _parse_qa_assessment_response(Q_keys))

Blank == ResumeAnalysisResult(<<>>)

AssessInputs ==
  { Blank,
    ResumeAnalysisResult(SetItem(<<>>, "overall_score", 80)),
    ResumeAnalysisResult(SetItem(<<>>, "skills_extracted", <<NonStr>>)) }

\* a stored prompt, or the None that find_one returns
NoPrompt == [found |-> FALSE, content |-> <<>>]
StoredPrompt(content) == [found |-> TRUE, content |-> content]
NoDocument == [exists |-> FALSE, suffix |-> "", reads |-> <<>>]
NoRequest == [model |-> None, input |-> None, payload |-> <<>>]
FilePath(k) == <<"path", k>>
Pending == [raised |-> FALSE, pending |-> TRUE]
Suspended == [raised |-> FALSE, suspended |-> TRUE]
IsSuspended(x) == "suspended" \in DOMAIN x

VARIABLES
  op,                  \* entry point called: "complete", "assess" or "batch"
  GEMINI_AVAILABLE,    \* module flag set at import
  extraction_results,  \* key -> TextExtractionResult
  file_paths,          \* keys of the file_paths dict
  job_context,         \* the Job (present or None) and its questions
  resume_analysis,     \* argument of a direct assess_qa_readiness call
  semaphore,           \* asyncio.Semaphore(max_concurrent)._value
  waiters,             \* tasks not yet past `async with semaphore`, in order
  pc,                  \* key -> "created" | "analysis" | "qa" | "done"
  attempt,             \* key -> loop variable of _generate_content_async
  retry_delay,         \* key -> retry_delay of _generate_content_async
  analysis_request,    \* key -> what the analysis path sent to the provider
  analysis,            \* key -> the analysis held while the readiness call runs
  task_result,         \* key -> outcome of the call / of the gathered task
  batch_return,        \* what batch_analyze_resumes returned
  provider_log,        \* provider attempts of a single-document call, in order
  parse_input,         \* input of the parsing step (parse specification)
  parsed,              \* output of the parsing step (parse specification)
  PDF_PROCESSING_AVAILABLE,  \* text_extraction.py flag set at import
  DOC_PROCESSING_AVAILABLE,  \* text_extraction.py flag set at import
  document,            \* the file behind file_path (extraction specification)
  extraction,          \* strategies run and outcome of extract_text
  scored_text,         \* argument of a direct _assess_text_quality call
  quality,             \* what _assess_text_quality returned
  batch_documents,     \* file_paths handed to batch_extract_text
  batch_extraction,    \* what batch_extract_text returned
  provider_calls,      \* key -> generate_content calls made for the key so
                       \* far; no entry: the calls of the key are not counted
  provider_faults,     \* key -> failures the provider still answers the key's
                       \* calls with; no entry: any call may fail or return
  prompt_store,        \* the Prompt collection: the customer's and the global
                       \* default prompt of the requested type, and its fault
  prompt_call,         \* arguments of the get_gemini_..._prompt call
  prompt_content,      \* what the call returned or raised
  raw_text,            \* characters handed to _clean_text
  clean_result         \* what _clean_text returned

vars ==
  <<op, GEMINI_AVAILABLE, extraction_results, file_paths, job_context,
    resume_analysis, semaphore, waiters, pc, attempt, retry_delay,
    analysis_request, analysis, task_result, batch_return, provider_log,
    parse_input, parsed, PDF_PROCESSING_AVAILABLE, DOC_PROCESSING_AVAILABLE,
    document, extraction, scored_text, quality, batch_documents,
    batch_extraction, provider_calls, provider_faults,
    prompt_store, prompt_call, prompt_content, raw_text, clean_result>>

clean_vars == <<raw_text, clean_result>>

prompt_vars == <<prompt_store, prompt_call, prompt_content>>

extraction_vars ==
  <<PDF_PROCESSING_AVAILABLE, DOC_PROCESSING_AVAILABLE, document, extraction,
    scored_text, quality, batch_documents, batch_extraction>>

Keys == DOMAIN pc

AnalysisResponses ==
  IF op = "batch" /\ provider_faults # <<>> THEN {R_good}
  ELSE IF op = "batch" THEN {R_good, R_array}
  ELSE PipelineResponses

QaResponses ==
  IF op = "batch" THEN {Q_good}
  ELSE PipelineQaResponses

\* whether genai.upload_file succeeds (batches are run with a working upload)
Uploads == IF op = "batch" THEN {TRUE} ELSE BOOLEAN

\* exhaustive inputs of the parsing step
ParseAlphabet == {WS, FENCE_JSON, FENCE, LBRACE, RBRACE, ARRAY, PROSE, "os150", "qs70"}
Texts == UNION { [1..n -> ParseAlphabet] : n \in 0..MaxLen }

\* ------------------------------------------------------------- Init
InitLocals(keys) ==
  /\ pc = [k \in keys |-> "created"]
  /\ attempt = [k \in keys |-> 0]
  /\ retry_delay = [k \in keys |-> initial_retry_delay]
  /\ analysis_request = [k \in keys |-> NoRequest]
  /\ analysis = [k \in keys |-> Blank]
  /\ task_result = [k \in keys |-> Pending]
  /\ batch_return = [status |-> "pending", results |-> <<>>,
                     metadata |-> BatchOutcome(<<>>, 0)]
  /\ provider_log = <<>>
  /\ semaphore = max_concurrent
  /\ parsed = Pending

InitComplete ==
  /\ op = "complete"
  /\ GEMINI_AVAILABLE \in BOOLEAN
  /\ extraction_results \in [{1} -> ExtractionInputs]
  /\ file_paths = {1}
  /\ job_context \in JobContexts
  /\ resume_analysis = Blank
  /\ waiters = <<>>
  /\ InitLocals({1})

InitAssess ==
  /\ op = "assess"
  /\ GEMINI_AVAILABLE \in BOOLEAN
  /\ extraction_results = <<>>
  /\ file_paths = {}
  /\ job_context \in {j \in JobContexts : j.present}
  /\ resume_analysis \in AssessInputs
  /\ waiters = <<>>
  /\ InitLocals({1})

\* a batch of n documents: confident and poor extractions alternate, and the
\* file_paths dict may lack the last key
BatchExtraction(n, shift) ==
  [k \in 1..n |->
     [text |-> <<"resume", "text">>,
      confidence |-> IF (k + shift) % 2 = 0 THEN 9500 ELSE 4000,
      needs_vlm_processing |-> FALSE]]

InitBatch ==
  /\ op = "batch"
  /\ GEMINI_AVAILABLE \in BOOLEAN
  /\ \E n \in 0..NumKeys, shift \in 0..1 :
       /\ extraction_results = BatchExtraction(n, shift)
       /\ file_paths \in {1..n, 1..(n - 1)}
       /\ waiters = [i \in 1..n |-> i]
       /\ InitLocals(1..n)
  /\ job_context \in {j \in JobContexts : j.present}
  /\ resume_analysis = Blank

\* batch_extract_text is not called
InitNoBatchExtraction ==
  /\ batch_documents = <<>>
  /\ batch_extraction = Pending

\* no text is being cleaned
InitNoClean ==
  /\ raw_text = <<>>
  /\ clean_result = Pending

\* no prompt is being requested
InitNoPromptCall ==
  /\ prompt_store = [customer |-> NoPrompt, global |-> NoPrompt, fault |-> "none"]
  /\ prompt_call = [prompt_type |-> None, customer_id |-> None, has_job_context |-> FALSE]
  /\ prompt_content = Pending

\* no prompt is being requested and no text cleaned
InitNoPrompt ==
  /\ InitNoPromptCall
  /\ InitNoClean

\* no document is being extracted, no text scored, no prompt requested
InitNoExtraction ==
  /\ InitNoPrompt
  /\ PDF_PROCESSING_AVAILABLE = TRUE
  /\ DOC_PROCESSING_AVAILABLE = TRUE
  /\ document = NoDocument
  /\ extraction = Pending
  /\ scored_text = EmptyText
  /\ quality = Pending
  /\ InitNoBatchExtraction

Init ==
  /\ InitComplete \/ InitAssess \/ InitBatch
  /\ parse_input = <<>>
  /\ InitNoExtraction
  /\ provider_faults = <<>>
  /\ provider_calls = <<>>

\* ---------------------------------------------------------- pipeline steps
\* analyze_resume_complete up to its first provider call
CompleteStart(path, upload_ok) ==
  IF ~GEMINI_AVAILABLE
    THEN complete_except(Raise("HTTPException",
           IF path = "text" THEN "Gemini not available for analysis"
           ELSE "Gemini not available for vision analysis"))
  ELSE IF path = "vision" /\ ~upload_ok
    THEN complete_except(path_except(path, Raise("UploadError", "upload_file failed")))
  ELSE Suspended

\* an unavailable provider reported by raising, as the analysis paths do
AssessStart_unavailable_raises(a) ==
  IF ~GEMINI_AVAILABLE THEN Raise("HTTPException", "Gemini not available")
  ELSE LET pr == QaPrompt(a)
       IN IF pr.raised THEN assess_except(pr) ELSE Suspended

\* assess_qa_readiness up to its provider call
AssessStart(a) ==
  IF ~GEMINI_AVAILABLE THEN Return(QaUnavailable)
  ELSE LET pr == QaPrompt(a)
       IN IF pr.raised THEN assess_except(pr) ELSE Suspended

\* analyze_resume_complete after assess_qa_readiness has come back
AfterQa(a, qa) ==
  IF qa.raised THEN complete_except(qa)
  ELSE IF IsList(qa.value)
    THEN complete_except(Raise("AttributeError", "'list' object has no attribute 'get'"))
  ELSE Return(ApplyQa(a, qa.value))

\* what a task does next: it ends with an outcome, or it starts a
\* _generate_content_async call (phase) holding the analysis a
Done(outcome) == [next |-> "done", analysis |-> Blank, outcome |-> outcome]
Await(phase, a) == [next |-> phase, analysis |-> a, outcome |-> Pending]
StartStep(start, phase, a) ==
  IF IsSuspended(start) THEN Await(phase, a) ELSE Done(start)

\* an analysis that asks the provider again when the response did not parse
AfterAnalysis_retry_on_parse_error(inner) ==
  IF ~inner.raised /\ inner.value.parsing_error # None THEN Await("analysis", Blank)
  ELSE IF inner.raised THEN Done(complete_except(inner))
  ELSE IF WantsQa(job_context)
    THEN LET st == AssessStart(inner.value)
         IN IF IsSuspended(st) THEN Await("qa", inner.value)
            ELSE Done(AfterQa(inner.value, st))
  ELSE Done(Return(inner.value))

\* an analysis whose readiness assessment starts whether or not the analysis
\* path has returned a result
AfterAnalysis_readiness_without_result(inner) ==
  IF WantsQa(job_context)
    THEN LET a == IF inner.raised THEN Blank ELSE inner.value
             st == AssessStart(a)
         IN IF IsSuspended(st) THEN Await("qa", a)
            ELSE Done(AfterQa(a, st))
  ELSE IF inner.raised THEN Done(complete_except(inner))
  ELSE Done(Return(inner.value))

\* analyze_resume_complete after the analysis path has come back with inner
AfterAnalysis(inner) ==
  IF inner.raised THEN Done(complete_except(inner))
  ELSE IF WantsQa(job_context)
    THEN LET st == AssessStart(inner.value)
         IN IF IsSuspended(st) THEN Await("qa", inner.value)
            ELSE Done(AfterQa(inner.value, st))
  ELSE Done(Return(inner.value))

\* the caller of assess_qa_readiness gets qa: the direct caller as it is,
\* analyze_resume_complete merges it into the analysis a
QaStep(a, qa) == Done(IF op = "assess" THEN qa ELSE AfterQa(a, qa))

\* key k takes the step: it waits for the provider in step.next, or its call
\* (its batch task) ends with step.outcome and leaves `async with semaphore`
Take(k, step, sem) ==
  /\ pc' = [pc EXCEPT ![k] = step.next]
  /\ analysis_request' =
       IF step.next = "analysis"
         THEN [analysis_request EXCEPT ![k] =
                 Request(Route(extraction_results[k]), extraction_results[k], FilePath(k))]
         ELSE analysis_request
  /\ attempt' = [attempt EXCEPT ![k] = 0]
  /\ retry_delay' = [retry_delay EXCEPT ![k] = initial_retry_delay]
  /\ analysis' = [analysis EXCEPT ![k] = step.analysis]
  /\ task_result' =
       IF step.next # "done" THEN task_result
       ELSE [task_result EXCEPT ![k] =
               IF op = "batch" THEN analyze_single(k, step.outcome) ELSE step.outcome]
  /\ semaphore' =
       IF step.next = "done" /\ op = "batch" THEN Release(sem, step.outcome) ELSE sem

\* the exceptions model.generate_content can raise: a transport failure or a
\* rejection of the request; the except clause takes both as Exception
ErrorKinds == {"transient", "permanent"}

Log(k, outcome, error, slept) ==
  provider_log' =
    IF op = "batch" THEN provider_log
    ELSE Append(provider_log,
                [phase |-> pc[k], attempt |-> attempt[k] + 1,
                 outcome |-> outcome, error |-> error, slept |-> slept])

\* the provider's answer to the next call of key k
MayFail(k) == IF k \in DOMAIN provider_faults THEN provider_faults[k] > 0 ELSE TRUE
MayReturn(k) == IF k \in DOMAIN provider_faults THEN provider_faults[k] = 0 ELSE TRUE
\* one more generate_content call has been made for key k
Counted(k) ==
  IF k \in DOMAIN provider_calls
    THEN [provider_calls EXCEPT ![k] = @ + 1]
  ELSE provider_calls

AfterFault(k) ==
  IF k \in DOMAIN provider_faults
    THEN [provider_faults EXCEPT ![k] = @ - 1]
  ELSE provider_faults

\* ------------------------------------------------------------- actions
\* batch: the next task enters `async with semaphore` and runs analyze_single
\* up to its first provider call
Admit ==
  /\ op = "batch"
  /\ waiters # <<>>
  /\ CanAcquire(semaphore)
  /\ \E upload_ok \in Uploads :
       \E step \in {StartStep(IF Head(waiters) \notin file_paths
                                THEN Raise("KeyError", "file key")
                                ELSE CompleteStart(Route(extraction_results[Head(waiters)]),
                                                   upload_ok),
                              "analysis", Blank)} :
         Take(Head(waiters), step, Acquire(semaphore))
  /\ waiters' = Tail(waiters)
  /\ UNCHANGED <<op, GEMINI_AVAILABLE, extraction_results, file_paths, job_context,
                 resume_analysis, batch_return, provider_log, parse_input, parsed, extraction_vars,
                 provider_faults, provider_calls, prompt_vars, clean_vars>>

\* a caller awaits analyze_resume_complete for one document
CallComplete ==
  /\ op = "complete"
  /\ pc[1] = "created"
  /\ \E upload_ok \in Uploads :
       \E step \in {StartStep(CompleteStart(Route(extraction_results[1]), upload_ok),
                              "analysis", Blank)} :
         Take(1, step, semaphore)
  /\ UNCHANGED <<op, GEMINI_AVAILABLE, extraction_results, file_paths, job_context,
                 resume_analysis, waiters, batch_return, provider_log,
                 parse_input, parsed, extraction_vars,
                 provider_faults, provider_calls, prompt_vars, clean_vars>>

\* a caller awaits assess_qa_readiness directly
CallAssess ==
  /\ op = "assess"
  /\ pc[1] = "created"
  /\ \E step \in {StartStep(AssessStart(resume_analysis), "qa", resume_analysis)} :
       Take(1, step, semaphore)
  /\ UNCHANGED <<op, GEMINI_AVAILABLE, extraction_results, file_paths, job_context,
                 resume_analysis, waiters, batch_return, provider_log,
                 parse_input, parsed, extraction_vars,
                 provider_faults, provider_calls, prompt_vars, clean_vars>>

\* model.generate_content returns text for the call of key k
ProviderReturn(k) ==
  /\ pc[k] \in {"analysis", "qa"}
  /\ MayReturn(k)
  /\ provider_calls' = Counted(k)
  /\ IF pc[k] = "analysis"
       THEN \E text \in AnalysisResponses :
              \E inner \in {AnalysisOutcome(Route(extraction_results[k]),
                                            ParsedAnalysis[text])} :
                \E step \in {AfterAnalysis(inner)} : Take(k, step, semaphore)
       ELSE \E text \in QaResponses :
              \E qa \in {QaOutcome(ParsedQa[text])} :
                \E step \in {QaStep(analysis[k], qa)} : Take(k, step, semaphore)
  /\ Log(k, "ok", None, 0)
  /\ UNCHANGED <<op, GEMINI_AVAILABLE, extraction_results, file_paths, job_context,
                 resume_analysis, waiters, batch_return, parse_input, parsed, extraction_vars,
                 provider_faults, prompt_vars, clean_vars>>

\* model.generate_content raises for the call of key k
ProviderFail(k) ==
  /\ pc[k] \in {"analysis", "qa"}
  /\ MayFail(k)
  /\ provider_faults' = AfterFault(k)
  /\ provider_calls' = Counted(k)
  /\ IF ShouldRetry(attempt[k])
       THEN \* await asyncio.sleep(retry_delay); retry_delay *= 2; next attempt
            /\ attempt' = [attempt EXCEPT ![k] = @ + 1]
            /\ retry_delay' = [retry_delay EXCEPT ![k] = NextDelay(@)]
            /\ \E error \in ErrorKinds : Log(k, "failed", error, retry_delay[k])
            /\ UNCHANGED <<pc, analysis_request, analysis, task_result, semaphore>>
       ELSE \* raise e
            /\ \E error \in ErrorKinds : Log(k, "failed", error, 0)
            /\ \E step \in {IF pc[k] = "analysis"
                              THEN Done(complete_except(
                                     path_except(Route(extraction_results[k]),
                                                 ProviderError)))
                              ELSE QaStep(analysis[k], assess_except(ProviderError))} :
                 Take(k, step, semaphore)
  /\ UNCHANGED <<op, GEMINI_AVAILABLE, extraction_results, file_paths, job_context,
                 resume_analysis, waiters, batch_return, parse_input, parsed, extraction_vars,
                 prompt_vars, clean_vars>>

\* batch: asyncio.gather has every task's result; build and return the map
Gather ==
  /\ op = "batch"
  /\ batch_return.status = "pending"
  /\ \A k \in Keys : pc[k] = "done"
  /\ \E analysis_results \in {Collect(task_result, Cardinality(Keys))} :
       batch_return' = [status |-> "returned",
                        results |-> analysis_results,
                        metadata |-> BatchOutcome(analysis_results,
                                                  Cardinality(DOMAIN extraction_results))]
  /\ UNCHANGED <<op, GEMINI_AVAILABLE, extraction_results, file_paths, job_context,
                 resume_analysis, semaphore, waiters, pc, attempt, retry_delay,
                 analysis_request, analysis, task_result, provider_log,
                 parse_input, parsed, extraction_vars,
                 provider_faults, provider_calls, prompt_vars, clean_vars>>

Next ==
  \/ Admit
  \/ CallComplete
  \/ CallAssess
  \/ \E k \in Keys : ProviderReturn(k)
  \/ \E k \in Keys : ProviderFail(k)
  \/ Gather

Spec == Init /\ [][Next]_vars

\* ------------------------------------------------ five-document scenario
\* batch_analyze_resumes on five documents with a provider that answers the
\* first two calls for two of the documents with a failure and every other
\* call with a well-formed response
FaultPlans ==
  { f \in [1..5 -> {0, 2}] : Cardinality({k \in 1..5 : f[k] = 2}) = 2 }

InitFiveDocuments ==
  /\ op = "batch"
  /\ GEMINI_AVAILABLE = TRUE
  /\ \E shift \in 0..1 : extraction_results = BatchExtraction(5, shift)
  /\ file_paths = 1..5
  /\ waiters = [i \in 1..5 |-> i]
  /\ InitLocals(1..5)
  /\ job_context \in {j \in JobContexts : j.present /\ j.questions = <<>>}
  /\ resume_analysis = Blank
  /\ parse_input = <<>>
  /\ InitNoExtraction
  /\ provider_faults \in FaultPlans
  /\ provider_calls = <<>>

NextBatch ==
  \/ Admit
  \/ \E k \in Keys : ProviderReturn(k)
  \/ \E k \in Keys : ProviderFail(k)
  \/ Gather

FiveDocumentsSpec == InitFiveDocuments /\ [][NextBatch]_vars

\* ------------------------------------------------ counted-batch scenario
\* batch_analyze_resumes on one document more than the limiter admits, with a
\* job context that may carry questions; any provider call may fail or
\* return, and the calls made for every key are counted
InitCountedBatch ==
  /\ op = "batch"
  /\ GEMINI_AVAILABLE = TRUE
  /\ \E shift \in 0..1 : extraction_results = BatchExtraction(max_concurrent + 1, shift)
  /\ file_paths = 1..(max_concurrent + 1)
  /\ waiters = [i \in 1..(max_concurrent + 1) |-> i]
  /\ InitLocals(1..(max_concurrent + 1))
  /\ job_context \in {j \in JobContexts : j.present}
  /\ resume_analysis = Blank
  /\ parse_input = <<>>
  /\ InitNoExtraction
  /\ provider_faults = <<>>
  /\ provider_calls = [k \in 1..(max_concurrent + 1) |-> 0]

CountedBatchSpec == InitCountedBatch /\ [][NextBatch]_vars

\* ---------------------------------------------------- parse specification
\* the parsing step of the three provider-facing operations, applied to every
\* text of at most MaxLen tokens
InitParse ==
  /\ op = "parse"
  /\ GEMINI_AVAILABLE = TRUE
  /\ extraction_results = <<>>
  /\ file_paths = {}
  /\ job_context = [present |-> FALSE, questions |-> <<>>]
  /\ resume_analysis = Blank
  /\ waiters = <<>>
  /\ InitLocals({})
  /\ parse_input \in Texts
  /\ InitNoExtraction
  /\ provider_faults = <<>>
  /\ provider_calls = <<>>

pipeline_vars ==
  <<op, GEMINI_AVAILABLE, extraction_results, file_paths, job_context,
    resume_analysis, semaphore, waiters, pc, attempt, retry_delay,
    analysis_request, analysis, task_result, batch_return, provider_log,
    provider_faults, provider_calls>>

ParseAnalysis(path) ==
  /\ op = "parse"
  /\ parsed = Pending
  /\ parsed' = [fn |-> "analysis", path |-> path,
                parse |-> _parse_analysis_response(parse_input),
                result |-> AnalysisOutcome(path, _parse_analysis_response(parse_input))]
  /\ UNCHANGED <<pipeline_vars, parse_input, extraction_vars, prompt_vars, clean_vars>>

ParseQa ==
  /\ op = "parse"
  /\ parsed = Pending
  /\ parsed' = [fn |-> "qa", path |-> None,
                parse |-> _parse_qa_assessment_response(parse_input),
                result |-> QaOutcome(_parse_qa_assessment_response(parse_input))]
  /\ UNCHANGED <<pipeline_vars, parse_input, extraction_vars, prompt_vars, clean_vars>>

NextParse ==
  \/ ParseAnalysis("text")
  \/ ParseAnalysis("vision")
  \/ ParseQa

ParseSpec == InitParse /\ [][NextParse]_vars

\* ----------------------------------------------- extraction specification
\* text_extraction.py: extract_text on one file, and _assess_text_quality on
\* one cleaned text.  A file is [exists, suffix, reads]: reads maps each
\* library or encoding that can open it to [exc, text], the exception the
\* read raises (None when it succeeds) and the text it yields.
TextExtractionResult(text, method, confidence, needs_vlm_processing) ==
  [text |-> text, method |-> method, confidence |-> confidence,
   needs_vlm_processing |-> needs_vlm_processing]

HTTPException(status_code, detail) ==
  [raised |-> TRUE, exc |-> "HTTPException", status_code |-> status_code,
   detail |-> detail]

\* what an extractor did: the strategy results it computed, in order, and
\* what it returned or raised
Extracted(calls, outcome) == [calls |-> calls, outcome |-> outcome]

\* one PDF strategy: any exception becomes an empty zero-confidence result
PdfStrategy(file_path, library, method) ==
  LET read == file_path.reads[library]
      cleaned_text == _clean_text(read.text)
  IN IF read.exc # None
       THEN TextExtractionResult(EmptyText, method, 0, FALSE)
     ELSE TextExtractionResult(cleaned_text, method,
                               _assess_text_quality(cleaned_text), FALSE)

_extract_pdf_with_pypdf2(file_path) ==
  PdfStrategy(file_path, "pypdf2", "direct_pdf_pypdf2")

_extract_pdf_with_pdfplumber(file_path) ==
  PdfStrategy(file_path, "pdfplumber", "direct_pdf_pdfplumber")

\* a strategy choice that prefers pdfplumber on a tie
_extract_from_pdf_tie_to_pdfplumber(file_path) ==
  LET pypdf_result == _extract_pdf_with_pypdf2(file_path)
      pdfplumber_result == _extract_pdf_with_pdfplumber(file_path)
  IN IF pypdf_result.confidence > MIN_CONFIDENCE_THRESHOLD
       THEN Extracted(<<pypdf_result>>, Return(pypdf_result))
     ELSE Extracted(<<pypdf_result, pdfplumber_result>>,
                    Return(IF pdfplumber_result.confidence >= pypdf_result.confidence
                             THEN pdfplumber_result ELSE pypdf_result))

\* a strategy choice that recommends vision processing at the threshold too
_extract_from_pdf_flag_at_threshold(file_path) ==
  IF ~PDF_PROCESSING_AVAILABLE
    THEN Extracted(<<>>, Return(TextExtractionResult(EmptyText, "pdf_unavailable", 0, TRUE)))
  ELSE
    LET pypdf_result == _extract_pdf_with_pypdf2(file_path)
        pdfplumber_result == _extract_pdf_with_pdfplumber(file_path)
        best_result == IF pdfplumber_result.confidence > pypdf_result.confidence
                         THEN pdfplumber_result ELSE pypdf_result
    IN IF pypdf_result.confidence > MIN_CONFIDENCE_THRESHOLD
         THEN Extracted(<<pypdf_result>>, Return(pypdf_result))
       ELSE IF pdfplumber_result.confidence > pypdf_result.confidence
         THEN Extracted(<<pypdf_result, pdfplumber_result>>, Return(pdfplumber_result))
       ELSE Extracted(<<pypdf_result, pdfplumber_result>>,
                      Return(IF best_result.confidence <= MIN_CONFIDENCE_THRESHOLD
                               THEN [best_result EXCEPT !.needs_vlm_processing = TRUE]
                             ELSE best_result))

_extract_from_pdf(file_path) ==
  IF ~PDF_PROCESSING_AVAILABLE
    THEN Extracted(<<>>, Return(TextExtractionResult(EmptyText, "pdf_unavailable", 0, TRUE)))
  ELSE
    LET pypdf_result == _extract_pdf_with_pypdf2(file_path)
        pdfplumber_result == _extract_pdf_with_pdfplumber(file_path)
        best_result == IF pdfplumber_result.confidence > pypdf_result.confidence
                         THEN pdfplumber_result ELSE pypdf_result
    IN IF pypdf_result.confidence > MIN_CONFIDENCE_THRESHOLD
         THEN Extracted(<<pypdf_result>>, Return(pypdf_result))
       ELSE IF pdfplumber_result.confidence > pypdf_result.confidence
         THEN Extracted(<<pypdf_result, pdfplumber_result>>, Return(pdfplumber_result))
       ELSE Extracted(<<pypdf_result, pdfplumber_result>>,
                      Return(IF best_result.confidence < MIN_CONFIDENCE_THRESHOLD
                               THEN [best_result EXCEPT !.needs_vlm_processing = TRUE]
                             ELSE best_result))

\* the shared tail of the single-strategy extractors: clean, score, wrap
CleanAndAssess(text, method) ==
  TextExtractionResult(_clean_text(text), method,
                       _assess_text_quality(_clean_text(text)), FALSE)

_extract_from_doc(file_path) ==
  LET read == file_path.reads["python-docx"]
  IN IF ~DOC_PROCESSING_AVAILABLE
       THEN Extracted(<<>>, HTTPException(500,
              "DOC/DOCX processing not available. Please install python-docx."))
     ELSE IF read.exc # None
       THEN Extracted(<<>>, HTTPException(500, "Failed to extract text from document"))
     ELSE Extracted(<<>>, Return(CleanAndAssess(read.text, "docx_extraction")))

FallbackEncodings == <<"latin-1", "cp1252", "iso-8859-1">>

\* the loop of the UnicodeDecodeError handler from its i-th encoding on; an
\* exception raised inside the handler is not caught by the sibling handler
RECURSIVE TryEncodings(_, _)
TryEncodings(file_path, i) ==
  IF i > Len(FallbackEncodings)
    THEN HTTPException(400, "Unable to decode text file. Unsupported encoding.")
  ELSE LET read == file_path.reads[FallbackEncodings[i]]
       IN IF read.exc = None THEN Return(CleanAndAssess(read.text, "plain_text"))
          ELSE IF read.exc = "UnicodeDecodeError" THEN TryEncodings(file_path, i + 1)
          ELSE Raise(read.exc, "read failed")

_extract_from_text(file_path) ==
  LET read == file_path.reads["utf-8"]
  IN IF read.exc = None
       THEN Extracted(<<>>, Return(CleanAndAssess(read.text, "plain_text")))
     ELSE IF read.exc = "UnicodeDecodeError"
       THEN Extracted(<<>>, TryEncodings(file_path, 1))
     ELSE Extracted(<<>>, HTTPException(500, "Failed to extract text from file"))

\* Path.suffix.lower()
lower(suffix) ==
  CASE suffix = ".PDF" -> ".pdf"
    [] suffix = ".Docx" -> ".docx"
    [] suffix = ".TXT" -> ".txt"
    [] OTHER -> suffix

\* "except HTTPException: raise / except Exception: raise HTTPException(500)"
extract_text_except(e) ==
  IF e.raised /\ e.exc # "HTTPException"
    THEN HTTPException(500, "Text extraction failed. Please try again.")
  ELSE e

extract_text(file_path) ==
  LET file_extension == lower(file_path.suffix)
      inner ==
        IF ~file_path.exists
          THEN Extracted(<<>>, HTTPException(404, "File not found"))
        ELSE IF file_extension = ".pdf" THEN _extract_from_pdf(file_path)
        ELSE IF file_extension \in {".doc", ".docx"} THEN _extract_from_doc(file_path)
        ELSE IF file_extension = ".txt" THEN _extract_from_text(file_path)
        ELSE Extracted(<<>>, HTTPException(400, "Unsupported file type"))
  IN Extracted(inner.calls, extract_text_except(inner.outcome))

\* batch_extract_text: the results dict, keyed by file path; a file whose
\* extract_text raises gets the failure result
batch_extract_text(paths) ==
  Return([file_path \in {paths[i] : i \in DOMAIN paths} |->
            IF extract_text(file_path).outcome.raised
              THEN TextExtractionResult(EmptyText, "batch_extraction_failed", 0, TRUE)
            ELSE extract_text(file_path).outcome.value])

\* ---- inputs of the extraction specification
Text(length, words, keywords, email, phone, special, removable) ==
  [length |-> length, words |-> words, keywords |-> keywords,
   email |-> email, phone |-> phone, special |-> special, removable |-> removable]

\* texts that a read of a file yields, chosen to score 0.0, 0.2, 0.3, 0.3333,
\* 0.5, 0.7, 0.7000000000000001 and 1.0 once cleaned
SampleTexts ==
  { EmptyText,
    Text(99, 19, {"experience"}, FALSE, FALSE, 0, 0),
    Text(100, 20, {"experience", "projects", "contact"}, TRUE, FALSE, 2, 1),
    Text(100, 19, {"experience", "projects", "contact"}, TRUE, TRUE, 4, 0),
    Text(300, 50, {}, FALSE, FALSE, 0, 0),
    Text(300, 50, {"experience"}, FALSE, FALSE, 30, 5),
    Text(501, 101, {}, FALSE, FALSE, 0, 0),
    Text(300, 50, {"experience", "projects", "contact"}, FALSE, FALSE, 0, 0),
    Text(300, 50, {"experience", "projects", "contact"}, TRUE, TRUE, 31, 0),
    Text(501, 101, {"experience", "projects", "contact"}, TRUE, TRUE, 10, 0) }

ReadOk(text) == [exc |-> None, text |-> text]
ReadFails(exc) == [exc |-> exc, text |-> EmptyText]

Reads == {ReadOk(text) : text \in SampleTexts}

\* decoding as latin-1 accepts every byte sequence, so a read with a fallback
\* encoding fails only when the file cannot be opened
TextFileReads ==
    { [enc \in {"utf-8", "latin-1", "cp1252", "iso-8859-1"} |-> r] : r \in Reads }
  \cup
    { [enc \in {"utf-8", "latin-1", "cp1252", "iso-8859-1"} |->
         IF enc = "utf-8" THEN ReadFails("UnicodeDecodeError") ELSE r] :
      r \in Reads \cup {ReadFails("OSError")} }
  \cup
    { [enc \in {"utf-8", "latin-1", "cp1252", "iso-8859-1"} |-> ReadFails("OSError")] }

Documents ==
    { [exists |-> FALSE, suffix |-> sfx, reads |-> <<>>] :
        sfx \in {".pdf", ".docx", ".txt", ".png"} }
  \cup
    { [exists |-> TRUE, suffix |-> sfx, reads |-> <<>>] : sfx \in {".png", ""} }
  \cup
    { [exists |-> TRUE, suffix |-> sfx,
       reads |-> [library \in {"pypdf2", "pdfplumber"} |->
                    IF library = "pypdf2" THEN a ELSE b]] :
        sfx \in {".pdf", ".PDF"},
        a \in Reads \cup {ReadFails("PdfReadError")},
        b \in Reads \cup {ReadFails("PDFSyntaxError")} }
  \cup
    { [exists |-> TRUE, suffix |-> sfx,
       reads |-> [library \in {"python-docx"} |-> r]] :
        sfx \in {".doc", ".docx", ".Docx"},
        r \in Reads \cup {ReadFails("PackageNotFoundError")} }
  \cup
    { [exists |-> TRUE, suffix |-> sfx, reads |-> r] :
        sfx \in {".txt", ".TXT"}, r \in TextFileReads }

\* the keywords that the texts of the input sets are built from
Keywords == {"experience", "education", "skills", "projects", "contact"}

\* cleaned texts: _clean_text leaves nothing to remove, an empty text has no
\* word and no match, n words take at least 2n - 1 characters, an e-mail
\* address has an at sign and a dot, a phone number ten digits
CleanedTexts ==
  { t \in [length : {0, 50, 99, 100, 250, 500, 501, 3000},
           words : {0, 1, 19, 20, 50, 100, 101, 600},
           keywords : SUBSET Keywords,
           email : BOOLEAN, phone : BOOLEAN,
           special : {0, 2, 10, 11, 25, 26, 50, 51, 300, 301},
           removable : {0}] :
      /\ (t.length = 0) = (t.words = 0)
      /\ t.words > 0 => t.length >= 2 * t.words - 1
      /\ Cardinality(t.keywords) <= t.words
      /\ t.special <= t.length
      /\ t.email => (t.special >= 2 /\ t.length >= 6)
      /\ t.phone => t.length >= 10 }

InitExtract ==
  /\ op = "extract"
  /\ PDF_PROCESSING_AVAILABLE \in BOOLEAN
  /\ DOC_PROCESSING_AVAILABLE \in BOOLEAN
  /\ document \in Documents
  /\ extraction = Pending
  /\ scored_text = EmptyText
  /\ quality = Pending
  /\ InitNoBatchExtraction

InitScore ==
  /\ op = "score"
  /\ PDF_PROCESSING_AVAILABLE = TRUE
  /\ DOC_PROCESSING_AVAILABLE = TRUE
  /\ document = NoDocument
  /\ extraction = Pending
  /\ scored_text \in CleanedTexts
  /\ quality = Pending
  /\ InitNoBatchExtraction

\* file lists of batch_extract_text: every single file, and the pairs of a
\* sample that has a file of each kind
BatchSample ==
  { d \in Documents :
      \/ ~d.exists /\ d.suffix = ".pdf"
      \/ d.exists /\ d.suffix = ".png"
      \/ /\ d.exists /\ d.suffix = ".pdf"
         /\ d.reads["pypdf2"] \in {ReadFails("PdfReadError"),
                                   ReadOk(Text(300, 50, {"experience"}, FALSE, FALSE, 30, 5))}
         /\ d.reads["pdfplumber"] \in
              {ReadFails("PDFSyntaxError"),
               ReadOk(Text(501, 101, {"experience", "projects", "contact"}, TRUE, TRUE, 10, 0))}
      \/ /\ d.exists /\ d.suffix = ".docx"
         /\ d.reads["python-docx"] \in {ReadFails("PackageNotFoundError"),
                                        ReadOk(Text(300, 50, {}, FALSE, FALSE, 0, 0))} }

BatchFileLists ==
  {<<>>} \cup {<<d>> : d \in Documents} \cup {<<d, e>> : d, e \in BatchSample}

InitBatchExtract ==
  /\ op = "batch_extract"
  /\ PDF_PROCESSING_AVAILABLE \in BOOLEAN
  /\ DOC_PROCESSING_AVAILABLE \in BOOLEAN
  /\ document = NoDocument
  /\ extraction = Pending
  /\ scored_text = EmptyText
  /\ quality = Pending
  /\ batch_documents \in BatchFileLists
  /\ batch_extraction = Pending

InitExtraction ==
  /\ InitExtract \/ InitScore \/ InitBatchExtract
  /\ InitNoPrompt
  /\ GEMINI_AVAILABLE = TRUE
  /\ extraction_results = <<>>
  /\ file_paths = {}
  /\ job_context = [present |-> FALSE, questions |-> <<>>]
  /\ resume_analysis = Blank
  /\ waiters = <<>>
  /\ InitLocals({})
  /\ parse_input = <<>>
  /\ provider_faults = <<>>
  /\ provider_calls = <<>>

ExtractText ==
  /\ op = "extract"
  /\ extraction = Pending
  /\ extraction' = extract_text(document)
  /\ UNCHANGED <<pipeline_vars, parse_input, parsed, prompt_vars, clean_vars, PDF_PROCESSING_AVAILABLE,
                 DOC_PROCESSING_AVAILABLE, document, scored_text, quality,
                 batch_documents, batch_extraction>>

AssessTextQuality ==
  /\ op = "score"
  /\ quality = Pending
  /\ quality' = Return(_assess_text_quality(scored_text))
  /\ UNCHANGED <<pipeline_vars, parse_input, parsed, prompt_vars, clean_vars, PDF_PROCESSING_AVAILABLE,
                 DOC_PROCESSING_AVAILABLE, document, extraction, scored_text,
                 batch_documents, batch_extraction>>

BatchExtractText ==
  /\ op = "batch_extract"
  /\ batch_extraction = Pending
  /\ batch_extraction' = batch_extract_text(batch_documents)
  /\ UNCHANGED <<pipeline_vars, parse_input, parsed, prompt_vars, clean_vars,
                 PDF_PROCESSING_AVAILABLE, DOC_PROCESSING_AVAILABLE, document,
                 extraction, scored_text, quality, batch_documents>>

NextExtraction ==
  \/ ExtractText
  \/ AssessTextQuality
  \/ BatchExtractText

ExtractSpec == InitExtraction /\ [][NextExtraction]_vars

\* --------------------------------------------------- prompt specification
\* prompt_service.py: get_prompt_content for the three purposes the analysis
\* core uses.  A template is a sequence of segments [kind, body]: literal
\* text, a replacement field {body}, an escaped brace ({{ or }}) or a lone
\* brace; a rendered prompt is the sequence of the strings they turn into.
Literal(body) == [kind |-> "text", body |-> body]
Field(body) == [kind |-> "field", body |-> body]
OpenBrace == [kind |-> "escaped", body |-> "{"]
CloseBrace == [kind |-> "escaped", body |-> "}"]
LoneBrace == [kind |-> "lone", body |-> "{"]

\* str.format(**variables): the first segment that cannot be rendered decides
\* the exception
format(template, variables) ==
  LET bad == {i \in 1..Len(template) :
                \/ template[i].kind = "lone"
                \/ template[i].kind = "field" /\ template[i].body \notin DOMAIN variables}
      first == CHOOSE i \in bad : \A j \in bad : i <= j
  IN IF bad = {}
       THEN Return([i \in 1..Len(template) |->
                      IF template[i].kind = "field" THEN variables[template[i].body]
                      ELSE template[i].body])
     ELSE IF template[first].kind = "lone"
       THEN Raise("ValueError", "Single '{' encountered in format string")
     ELSE Raise("KeyError", template[first].body)

\* Prompt.render_prompt: every failure becomes ValueError
render_prompt(content, variables) ==
  LET rendered == format(content, variables)
  IN IF ~rendered.raised THEN rendered
     ELSE IF rendered.exc = "KeyError"
       THEN Raise("ValueError", "Missing required variable")
     ELSE Raise("ValueError", "Error rendering prompt")

JsonFormat == <<OpenBrace, Literal("json schema"), CloseBrace>>

_get_fallback_gemini_text_prompt ==
  <<Literal("You are an expert HR analyst"), Field("resume_text")>>
  \o JsonFormat \o <<Field("job_context"), Literal("Return ONLY valid JSON")>>

_get_fallback_gemini_vision_prompt ==
  <<Literal("Analyze this resume document")>>
  \o JsonFormat \o <<Field("job_context"), Literal("Return ONLY valid JSON")>>

_get_fallback_gemini_qa_prompt ==
  <<Literal("You are an interview preparation specialist"),
    Field("experience_years"), Field("experience_level"), Field("skills"),
    Field("previous_roles"), Field("achievements"), Field("overall_score"),
    Field("questions")>>
  \o JsonFormat \o <<Literal("Return ONLY valid JSON")>>

PromptTypes == {"gemini_resume_text", "gemini_resume_vision", "gemini_qa_assessment"}

FallbackContent(prompt_type) ==
  CASE prompt_type = "gemini_resume_text" -> _get_fallback_gemini_text_prompt
    [] prompt_type = "gemini_resume_vision" -> _get_fallback_gemini_vision_prompt
    [] prompt_type = "gemini_qa_assessment" -> _get_fallback_gemini_qa_prompt

\* the variables dict each get_gemini_..._prompt builds
_format_job_context(has_job_context) ==
  IF has_job_context THEN "Job Title: ..." ELSE ""

PromptVariables(prompt_type, has_job_context) ==
  CASE prompt_type = "gemini_resume_text" ->
         [name \in {"resume_text", "job_context"} |->
            IF name = "resume_text" THEN "resume {text}"
            ELSE _format_job_context(has_job_context)]
    [] prompt_type = "gemini_resume_vision" ->
         [name \in {"job_context"} |-> _format_job_context(has_job_context)]
    [] prompt_type = "gemini_qa_assessment" ->
         [name \in {"experience_years", "experience_level", "skills",
                    "previous_roles", "achievements", "overall_score",
                    "questions"} |->
            IF name = "questions" THEN "Q1: ... (Weight: 1.0)" ELSE "value" \o name]

\* Prompt.get_default_prompt: the customer's default first, then the global
get_default_prompt(prompt_type, customer_id) ==
  IF customer_id # None /\ prompt_store.customer.found
    THEN prompt_store.customer
  ELSE prompt_store.global

\* a get_prompt_content whose except clause re-raises without the fallback
get_prompt_content_no_fallback(prompt_type, variables, customer_id, fallback_content) ==
  IF prompt_store.fault = "lookup"
    THEN Raise("ConnectionError", "find_one failed")
  ELSE IF ~get_default_prompt(prompt_type, customer_id).found
    THEN format(fallback_content, variables)
  ELSE IF prompt_store.fault = "usage"
    THEN Raise("ConnectionError", "set failed")
  ELSE render_prompt(get_default_prompt(prompt_type, customer_id).content, variables)

get_prompt_content(prompt_type, variables, customer_id, fallback_content) ==
  LET prompt == get_default_prompt(prompt_type, customer_id)
      tried ==
        IF prompt_store.fault = "lookup"
          THEN Raise("ConnectionError", "find_one failed")
        ELSE IF prompt.found
          THEN IF prompt_store.fault = "usage"
                 THEN Raise("ConnectionError", "set failed")
               ELSE render_prompt(prompt.content, variables)
        ELSE IF fallback_content # <<>>
          THEN format(fallback_content, variables)
        ELSE Raise("ValueError", "No prompt available for type")
      fallback == format(fallback_content, variables)
  IN IF ~tried.raised THEN tried
     ELSE IF fallback_content # <<>> /\ ~fallback.raised THEN fallback
     ELSE tried

\* contents a stored prompt can have: the fields of the purpose, a field the
\* caller does not supply, a lone brace
StoredContents(prompt_type) ==
  { <<Literal("custom prompt")>> \o FallbackContent(prompt_type),
    <<Literal("custom prompt"), Field("company_name")>>,
    <<Literal("custom prompt"), LoneBrace>> }

InitPrompt ==
  /\ op = "prompt"
  /\ \E prompt_type \in PromptTypes :
       /\ prompt_call \in [prompt_type : {prompt_type},
                           customer_id : {None, "customer-1"},
                           has_job_context : BOOLEAN]
       /\ prompt_store \in
            [customer : {NoPrompt} \cup {StoredPrompt(c) : c \in StoredContents(prompt_type)},
             global : {NoPrompt} \cup {StoredPrompt(c) : c \in StoredContents(prompt_type)},
             fault : {"none", "lookup", "usage"}]
  /\ prompt_content = Pending
  /\ InitNoClean
  /\ GEMINI_AVAILABLE = TRUE
  /\ extraction_results = <<>>
  /\ file_paths = {}
  /\ job_context = [present |-> FALSE, questions |-> <<>>]
  /\ resume_analysis = Blank
  /\ waiters = <<>>
  /\ InitLocals({})
  /\ parse_input = <<>>
  /\ provider_faults = <<>>
  /\ provider_calls = <<>>
  /\ PDF_PROCESSING_AVAILABLE = TRUE
  /\ DOC_PROCESSING_AVAILABLE = TRUE
  /\ document = NoDocument
  /\ extraction = Pending
  /\ scored_text = EmptyText
  /\ quality = Pending
  /\ InitNoBatchExtraction

\* get_gemini_resume_text_prompt, get_gemini_resume_vision_prompt or
\* get_gemini_qa_assessment_prompt, as prompt_call.prompt_type says
GetPrompt ==
  /\ op = "prompt"
  /\ prompt_content = Pending
  /\ prompt_content' =
       get_prompt_content(prompt_call.prompt_type,
                          PromptVariables(prompt_call.prompt_type,
                                          prompt_call.has_job_context),
                          prompt_call.customer_id,
                          FallbackContent(prompt_call.prompt_type))
  /\ UNCHANGED <<pipeline_vars, parse_input, parsed, extraction_vars,
                 prompt_store, prompt_call, clean_vars>>

NextPrompt == GetPrompt

PromptSpec == InitPrompt /\ [][NextPrompt]_vars

\* ------------------------------------------------------ _clean_text, by
\* characters.  A text is a sequence of characters, one for each class the
\* regular expressions of _clean_text and the Unicode database tell apart:
\*   "a"       printable ASCII other than the space
\*   " "       the space
\*   "LF" "CR" line feed and carriage return
\*   "NUL"     an ASCII control character that is not whitespace
\*   "U+F0B7"  a private-use character inside U+F000..U+F8FF
\*   "U+E000"  a private-use character outside that range
\*   "U+0080"  a C1 control character that is not whitespace
\*   "U+00A0"  the no-break space, which NFKD turns into the space
\*   "U+00E9"  a printable letter that NFKD splits into a letter and a mark
\*   "U+0301"  a combining mark, printable and not ASCII
RawCharacters ==
  {"a", " ", "LF", "CR", "NUL", "U+F0B7", "U+E000", "U+0080", "U+00A0", "U+00E9"}

\* what \s matches
Whitespace == {" ", "LF", "CR", "U+00A0"}
\* [\x00-\x7F]
Ascii == {"a", " ", "LF", "CR", "NUL"}
\* str.isprintable of one character
Printable == {"a", " ", "U+00E9", "U+0301"}

\* length of the longest prefix of text whose characters are all in class
RECURSIVE RunLength(_, _)
RunLength(text, class) ==
  IF text = <<>> \/ Head(text) \notin class THEN 0
  ELSE 1 + RunLength(Tail(text), class)

Drop(text, n) == SubSeq(text, n + 1, Len(text))

\* unicodedata.normalize('NFKD', text)
RECURSIVE normalize(_)
normalize(text) ==
  IF text = <<>> THEN <<>>
  ELSE (IF Head(text) = "U+00E9" THEN <<"a", "U+0301">>
        ELSE IF Head(text) = "U+00A0" THEN <<" ">>
        ELSE <<Head(text)>>) \o normalize(Tail(text))

\* re.sub(r'\s+', ' ', text)
RECURSIVE collapse_whitespace(_)
collapse_whitespace(text) ==
  IF text = <<>> THEN <<>>
  ELSE IF Head(text) \in Whitespace
    THEN <<" ">> \o collapse_whitespace(Drop(text, RunLength(text, Whitespace)))
  ELSE <<Head(text)>> \o collapse_whitespace(Tail(text))

\* re.sub(r'[\x00-\x08\x0B\x0C\x0E-\x1F\x7F]', '', text)
remove_control_characters(text) == SelectSeq(text, LAMBDA c : c # "NUL")

\* re.sub(r'[-]', '', text)
remove_private_use(text) == SelectSeq(text, LAMBDA c : c # "U+F0B7")

\* re.sub(r'[^\x00-\x7F]+', lambda m: m.group(0) if m.group(0).isprintable()
\* else ' ', text)
RECURSIVE replace_unprintable_runs(_)
replace_unprintable_runs(text) ==
  IF text = <<>> THEN <<>>
  ELSE IF Head(text) \in Ascii
    THEN <<Head(text)>> \o replace_unprintable_runs(Tail(text))
  ELSE LET NotAscii == {text[i] : i \in DOMAIN text} \ Ascii
           n == RunLength(text, NotAscii)
           group == SubSeq(text, 1, n)
       IN (IF \A i \in 1..n : group[i] \in Printable THEN group ELSE <<" ">>)
            \o replace_unprintable_runs(Drop(text, n))

\* re.sub(r'\r\n|\r', '\n', text)
RECURSIVE normalize_line_breaks(_)
normalize_line_breaks(text) ==
  IF text = <<>> THEN <<>>
  ELSE IF Head(text) = "CR"
    THEN <<"LF">> \o normalize_line_breaks(
           Drop(text, IF Len(text) > 1 /\ text[2] = "LF" THEN 2 ELSE 1))
  ELSE <<Head(text)>> \o normalize_line_breaks(Tail(text))

\* re.sub(r'\n{3,}', '\n\n', text)
RECURSIVE collapse_newlines(_)
collapse_newlines(text) ==
  IF text = <<>> THEN <<>>
  ELSE IF RunLength(text, {"LF"}) >= 3
    THEN <<"LF", "LF">> \o collapse_newlines(Drop(text, RunLength(text, {"LF"})))
  ELSE <<Head(text)>> \o collapse_newlines(Tail(text))

\* text.strip() of a sequence of characters
strip_characters(text) ==
  LET first == RunLength(text, Whitespace) + 1
      last == CHOOSE i \in 0..Len(text) :
                /\ \A j \in (i + 1)..Len(text) : text[j] \in Whitespace
                /\ i = 0 \/ text[i] \notin Whitespace
  IN SubSeq(text, first, last)

\* _clean_text on a sequence of characters
clean_characters(text) ==
  IF text = <<>> THEN <<>>
  ELSE strip_characters(collapse_newlines(normalize_line_breaks(
         replace_unprintable_runs(remove_private_use(remove_control_characters(
           collapse_whitespace(normalize(text))))))))

\* every raw text of at most MaxChars characters
RawTexts == UNION { [1..n -> RawCharacters] : n \in 0..MaxChars }

InitClean ==
  /\ op = "clean"
  /\ raw_text \in RawTexts
  /\ clean_result = Pending
  /\ InitNoPromptCall
  /\ GEMINI_AVAILABLE = TRUE
  /\ extraction_results = <<>>
  /\ file_paths = {}
  /\ job_context = [present |-> FALSE, questions |-> <<>>]
  /\ resume_analysis = Blank
  /\ waiters = <<>>
  /\ InitLocals({})
  /\ parse_input = <<>>
  /\ provider_faults = <<>>
  /\ provider_calls = <<>>
  /\ PDF_PROCESSING_AVAILABLE = TRUE
  /\ DOC_PROCESSING_AVAILABLE = TRUE
  /\ document = NoDocument
  /\ extraction = Pending
  /\ scored_text = EmptyText
  /\ quality = Pending
  /\ InitNoBatchExtraction

\* _clean_text(raw_text) is called and returns
CleanText ==
  /\ op = "clean"
  /\ clean_result = Pending
  /\ clean_result' = Return(clean_characters(raw_text))
  /\ UNCHANGED <<pipeline_vars, parse_input, parsed, extraction_vars, prompt_vars,
                 raw_text>>

NextClean == CleanText

CleanSpec == InitClean /\ [][NextClean]_vars

\* every provider call eventually returns or fails and the event loop runs a
\* task that can run: while some step is possible, a step is taken
FairSpec == Spec /\ WF_vars(Next)

\* ===================================================================
\* Properties
\* ===================================================================
InFlight == {k \in Keys : pc[k] \in {"analysis", "qa"}}
Returned == op = "batch" /\ batch_return.status = "returned"
\* the gathered task of key k ended with the failure result of analyze_single
FailedEntry(k) ==
  /\ op = "batch"
  /\ pc[k] = "done"
  /\ ~task_result[k].raised
  /\ task_result[k].value.analysis.processing_method = "batch_analysis_failed"
SucceededEntry(k) ==
  /\ op = "batch"
  /\ pc[k] = "done"
  /\ ~task_result[k].raised
  /\ task_result[k].value.analysis.processing_method # "batch_analysis_failed"
\* the provider attempts logged for one invocation of a single-document call
IsAnalysisEntry(e) == e.phase = "analysis"
IsQaEntry(e) == e.phase = "qa"
Invocation(ph) ==
  IF ph = "analysis" THEN SelectSeq(provider_log, IsAnalysisEntry)
  ELSE SelectSeq(provider_log, IsQaEntry)
AllFailed(L) == \A i \in 1..Len(L) : L[i].outcome = "failed"

\* C1: once batch_analyze_resumes has returned, the returned map has exactly
\* one entry for each submitted key and no other entry, however many of the
\* analyses failed.
C1_BatchReturnsEveryKey ==
  Returned =>
    /\ DOMAIN batch_return.results = DOMAIN extraction_results
    /\ Cardinality(DOMAIN batch_return.results) = Cardinality(DOMAIN extraction_results)

C1_Witness ==
  /\ Returned
  /\ Cardinality(Keys) > max_concurrent
  /\ \E k \in Keys : FailedEntry(k)
  /\ \E k \in Keys : SucceededEntry(k)
  /\ DOMAIN batch_return.results = Keys

\* C2: at most 3 batch entries are inside their analysis at any time, and a
\* task leaves the wait for the semaphore only in a state where fewer than 3
\* entries are in flight.
C2_AtMostThreeInFlight ==
  /\ [](op = "batch" => Cardinality(InFlight) <= max_concurrent)
  /\ [][op = "batch" =>
          \A k \in Keys :
            (pc[k] = "created" /\ pc'[k] # "created")
              => Cardinality(InFlight) < max_concurrent]_vars

C2_Witness ==
  /\ op = "batch"
  /\ Cardinality(InFlight) = max_concurrent
  /\ \E k \in Keys : pc[k] = "created"

\* C3: a settled entry holds no slot whether it succeeded or failed: the free
\* slots are always the 3 minus the entries in flight, within 0..3, and all 3
\* are free once the batch has returned.
C3_SlotsGivenBack ==
  op = "batch" =>
    /\ semaphore \in 0..max_concurrent
    /\ semaphore = max_concurrent - Cardinality(InFlight)
    /\ Returned => semaphore = max_concurrent

C3_Witness ==
  /\ op = "batch"
  /\ semaphore = max_concurrent - 1
  /\ \E k \in Keys : FailedEntry(k)
  /\ \E k \in Keys : SucceededEntry(k)
  /\ \E k \in Keys : k > max_concurrent /\ pc[k] \in {"analysis", "qa"}

\* C4: with every provider call eventually returning or failing, every entry
\* of a batch settles and the batch returns; the step in which an entry fails
\* changes no sibling's position or result and frees one slot.
C4_BatchSettles ==
  /\ (op = "batch") ~> (Returned /\ \A k \in Keys : pc[k] = "done")
  /\ [][\A k \in Keys :
          (op = "batch" /\ pc[k] \in {"analysis", "qa"} /\ FailedEntry(k)')
            => /\ \A j \in Keys \ {k} :
                    pc'[j] = pc[j] /\ task_result'[j] = task_result[j]
               /\ semaphore' = semaphore + 1]_vars

C4_Witness ==
  /\ Returned
  /\ \A k \in 1..max_concurrent : k \in Keys /\ FailedEntry(k)
  /\ \E k \in Keys : k > max_concurrent /\ SucceededEntry(k)

\* C5: one _generate_content_async call makes at most 3 provider attempts,
\* numbered 1, 2, 3; a successful attempt is the last one of its call and the
\* call has then returned; after 3 failed attempts the call has ended with
\* the error (the analysis call of a single-document run raises).
C5_AtMostThreeAttempts ==
  /\ \A k \in Keys : attempt[k] \in 0..(max_retries - 1)
  /\ op \in {"complete", "assess"} =>
       \A ph \in {"analysis", "qa"} :
         LET L == Invocation(ph)
         IN /\ Len(L) <= max_retries
            /\ \A i \in 1..Len(L) :
                 /\ L[i].attempt = i
                 /\ L[i].outcome = "ok" => i = Len(L)
            /\ (L # <<>> /\ L[Len(L)].outcome = "ok") => pc[1] # ph
            /\ (Len(L) = max_retries /\ AllFailed(L)) => pc[1] = "done"
            /\ (ph = "analysis" /\ Len(L) = max_retries /\ AllFailed(L))
                 => task_result[1].raised
            /\ pc[1] = ph => (AllFailed(L) /\ attempt[1] = Len(L))

C5_Witness ==
  /\ op = "complete"
  /\ Len(provider_log) >= 3
  /\ provider_log[1].outcome = "failed"
  /\ provider_log[2].outcome = "failed"
  /\ provider_log[3].outcome = "ok"
  /\ provider_log[3].phase = "analysis"
  /\ provider_log[3].attempt = 3
  /\ pc[1] = "done"
  /\ ~task_result[1].raised

\* C6: for every response text that does not parse as a JSON object, neither
\* the parsing step nor the text/vision analysis raises, and the analysis
\* result has processing_method "failed-parse", overall_score 25,
\* confidence 0.1 and a parsing_error.
C6_MalformedYieldsFailedParse ==
  ("fn" \in DOMAIN parsed
     /\ parsed.fn = "analysis"
     /\ json_loads(StripFences(parse_input)).kind # "object")
    => /\ ~parsed.parse.raised
       /\ ~parsed.result.raised
       /\ parsed.result.value.processing_method = "failed-parse"
       /\ parsed.result.value.overall_score = 25
       /\ parsed.result.value.confidence_score = 1000
       /\ parsed.result.value.parsing_error # None

\* the extraction results the text path is for
TextCase(er) == er.confidence >= 7000 /\ ~er.needs_vlm_processing
\* C7: the path taken depends on the extraction result alone: confidence
\* >= 0.7 without needs_vlm_processing sends the extracted text to the text
\* model and nothing to the vision model, anything else sends the file to the
\* vision model; a result that comes back carries the method of that path.
C7_RoutingByExtraction ==
  op \in {"complete", "batch"} =>
    \A k \in Keys :
      LET er == extraction_results[k]
      IN /\ analysis_request[k] # NoRequest =>
              analysis_request[k] =
                IF TextCase(er)
                  THEN [model |-> TEXT_MODEL, input |-> "extracted_text",
                        payload |-> er.text]
                  ELSE [model |-> VISION_MODEL, input |-> "file",
                        payload |-> FilePath(k)]
         /\ pc[k] \in {"analysis", "qa"} => analysis_request[k] # NoRequest
         /\ (op = "complete" /\ pc[k] = "done" /\ ~task_result[k].raised) =>
              task_result[k].value.processing_method =
                IF TextCase(er) THEN "gemini_text_analysis"
                ELSE "gemini_vision_analysis"

C7_Witness ==
  /\ op = "complete"
  /\ extraction_results[1].confidence = ROUTING_THRESHOLD
  /\ ~extraction_results[1].needs_vlm_processing
  /\ analysis_request[1].model = TEXT_MODEL
  /\ analysis_request[1].payload = extraction_results[1].text
  /\ pc[1] = "done"
  /\ ~task_result[1].raised
  /\ task_result[1].value.processing_method = "gemini_text_analysis"

\* the documented ranges of an analysis result
InRange(r) ==
  /\ r.overall_score \in 0..100
  /\ r.confidence_score \in 0..10000
  /\ r.experience_years >= 0
  /\ r.experience_level \in {"entry", "junior", "mid", "senior", "lead", "executive"}
\* C8: every result handed to a caller of the single-document analysis or of
\* the batch has all declared fields, with overall_score in 0..100,
\* confidence in 0..1, experience_years >= 0 and a known experience_level.
C8_ResultsInRange ==
  \A k \in Keys :
    (op \in {"complete", "batch"} /\ pc[k] = "done" /\ ~task_result[k].raised) =>
      LET r == IF op = "batch" THEN task_result[k].value.analysis
               ELSE task_result[k].value
      IN DOMAIN r = ResultFields /\ InRange(r)

\* C9: the step in which the provider fails on the last attempt ends the
\* call; a single-document analysis then raises and has no result, a batch
\* entry gets the failure result instead, and a readiness assessment gets
\* the degraded assessment instead (alone, inside a single-document analysis
\* or inside a batch), so neither of the two raises.
C9_ProviderFailureByContext ==
  [][\A k \in Keys :
       (ProviderFail(k) /\ attempt[k] = max_retries - 1) =>
         /\ pc'[k] = "done"
         /\ (op = "complete" /\ pc[k] = "analysis") =>
              /\ task_result'[k].raised
              /\ "value" \notin DOMAIN task_result'[k]
         /\ op = "batch" => ~task_result'[k].raised
         /\ (op = "batch" /\ pc[k] = "analysis") =>
              task_result'[k].value.analysis.processing_method = "batch_analysis_failed"
         /\ pc[k] = "qa" =>
              /\ ~task_result'[k].raised
              /\ LET v == task_result'[k].value
                     r == IF op = "batch" THEN v.analysis ELSE v
                 IN /\ r.qa_readiness_score = 0
                    /\ r.interview_recommendations =
                         <<"Manual assessment required due to error">>]_vars

C9_Witness ==
  /\ op = "complete"
  /\ Len(provider_log) = max_retries
  /\ AllFailed(provider_log)
  /\ \A i \in 1..Len(provider_log) : provider_log[i].phase = "analysis"
  /\ pc[1] = "done"
  /\ task_result[1].raised
  /\ task_result[1].exc = "HTTPException"

\* the keys of a readiness assessment
AssessmentKeys ==
  {"qa_readiness_score", "question_assessments", "interview_recommendations",
   "overall_assessment"}
\* C10: a finished assess_qa_readiness call has not raised; when the provider
\* was unavailable, the prompt could not be built or all attempts of the
\* provider call failed, its value is a well-formed assessment (it has the
\* four assessment keys) with qa_readiness_score 0, no question_assessments
\* and a note in interview_recommendations.
C10_AssessNeverRaises ==
  (op = "assess" /\ pc[1] = "done") =>
    /\ ~task_result[1].raised
    /\ (\/ ~GEMINI_AVAILABLE
        \/ QaPrompt(resume_analysis).raised
        \/ Len(provider_log) = max_retries /\ AllFailed(provider_log))
         => /\ AssessmentKeys \subseteq DOMAIN task_result[1].value
            /\ task_result[1].value.qa_readiness_score = 0
            /\ task_result[1].value.question_assessments = <<>>
            /\ task_result[1].value.interview_recommendations # <<>>

C10_Witness ==
  /\ op = "assess"
  /\ GEMINI_AVAILABLE
  /\ Len(provider_log) = max_retries
  /\ AllFailed(provider_log)
  /\ pc[1] = "done"
  /\ ~task_result[1].raised
  /\ task_result[1].value.qa_readiness_score = 0
  /\ task_result[1].value.interview_recommendations =
       <<"Manual assessment required due to error">>

\* C11: when the analysis of a batch entry has failed (the provider library
\* is unavailable or the entry has no file path), the entry of that key is a
\* result whose parsing_error carries the error message and whose
\* processing_method is "failed-parse".
C11_FailedEntryCarriesError ==
  \A k \in Keys :
    (op = "batch" /\ pc[k] = "done" /\ (~GEMINI_AVAILABLE \/ k \notin file_paths)) =>
      /\ ~task_result[k].raised
      /\ task_result[k].value.analysis.parsing_error # None
      /\ task_result[k].value.analysis.processing_method = "failed-parse"

\* C12: an attempt that fails with a permanent error is the last attempt of
\* its invocation, and the invocation has ended with it.
C12_PermanentNotRetried ==
  op \in {"complete", "assess"} =>
    \A ph \in {"analysis", "qa"} :
      LET L == Invocation(ph)
      IN \A i \in 1..Len(L) :
           L[i].error = "permanent" => (i = Len(L) /\ pc[1] # ph)

\* C13 (as stated): every failed attempt is followed by a wait, 1s after the
\* first, 2s after the second and 4s after the third.
C13_WaitsOneTwoFour ==
  op \in {"complete", "assess"} =>
    \A ph \in {"analysis", "qa"} :
      LET L == Invocation(ph)
      IN \A i \in 1..Len(L) :
           L[i].outcome = "failed" => L[i].slept = 2 ^ (i - 1)

\* C13 (amended): a failed attempt that is not the last allowed one is
\* followed by a wait twice as long as the previous wait, starting at 1s
\* (1s, then 2s); the third failed attempt is followed by no wait, and a
\* successful attempt by none.
C13_WaitsOneTwo ==
  op \in {"complete", "assess"} =>
    /\ \A ph \in {"analysis", "qa"} :
         LET L == Invocation(ph)
         IN \A i \in 1..Len(L) :
              /\ L[i].slept = IF L[i].outcome = "failed" /\ i < max_retries
                                THEN 2 ^ (i - 1) ELSE 0
              /\ (i > 1 /\ L[i].slept > 0) => L[i].slept = 2 * L[i - 1].slept
    /\ pc[1] \in {"analysis", "qa"} => retry_delay[1] = 2 ^ attempt[1]

C13_Witness ==
  /\ op = "complete"
  /\ Len(provider_log) = max_retries
  /\ provider_log[1].slept = 1
  /\ provider_log[2].slept = 2
  /\ provider_log[3].slept = 0
  /\ provider_log[3].outcome = "failed"
  /\ provider_log[3].phase = "analysis"

\* the successful provider attempts logged for the analysis call
OkAttempts(L) == {i \in 1..Len(L) : L[i].outcome = "ok"}

\* C14: the step in which the provider returns a response ends the analysis
\* call of that entry, whether the response parses or not: the entry moves on
\* to the readiness call or ends, its request is not sent again, and it never
\* comes back to the analysis call; a single-document analysis that ended
\* with a parse failure has made exactly one successful provider attempt, its
\* last one.
C14_NoRetryAfterResponse ==
  /\ [][\A k \in Keys :
          (pc[k] = "analysis" /\ ProviderReturn(k)) =>
            /\ pc'[k] \in {"qa", "done"}
            /\ analysis_request'[k] = analysis_request[k]]_vars
  /\ [][\A k \in Keys : pc[k] \in {"qa", "done"} => pc'[k] # "analysis"]_vars
  /\ []((op = "complete" /\ pc[1] = "done" /\ ~task_result[1].raised
           /\ task_result[1].value.parsing_error # None) =>
          LET L == Invocation("analysis")
          IN OkAttempts(L) = {Len(L)} /\ Len(L) \in 1..max_retries)

C14_Witness ==
  /\ op = "complete"
  /\ pc[1] = "done"
  /\ ~task_result[1].raised
  /\ task_result[1].value.parsing_error # None
  /\ task_result[1].value.overall_score = 25
  /\ Len(Invocation("analysis")) = 2
  /\ provider_log[1].outcome = "failed"
  /\ provider_log[2].outcome = "ok"

\* the response text of the parsing step denotes an object
ParsedObject ==
  /\ "fn" \in DOMAIN parsed
  /\ parsed.fn = "analysis"
  /\ json_loads(StripFences(parse_input)).kind = "object"
\* the object the response text denotes
ResponseObject == json_loads(StripFences(parse_input)).dict
NumericFields == {"overall_score", "experience_years", "confidence_score"}
CollectionFields ==
  {"skills_extracted", "education", "previous_roles", "key_achievements",
   "strengths", "areas_for_improvement", "contact_info"}

\* C15 (as stated): when the response is an object, an absent numeric field
\* is 0 and an absent list or map field is empty in the parsed data and in
\* the result, and the result has every declared field.
C15_BackfillZero ==
  ParsedObject =>
    /\ ~parsed.parse.raised /\ ~parsed.result.raised
    /\ DOMAIN parsed.result.value = ResultFields
    /\ \A f \in (NumericFields \cup CollectionFields) \ DOMAIN ResponseObject :
         /\ parsed.parse.value[f] = IF f \in NumericFields THEN 0 ELSE <<>>
         /\ parsed.result.value[f] = IF f \in NumericFields THEN 0 ELSE <<>>

\* C15 (amended): when the response is an object, an absent overall_score is
\* 50, an absent confidence is 0.5, an absent experience_years is 0, an absent
\* experience_level is "entry" and an absent list or map field is empty, in
\* the parsed data and in the result; a field the response has keeps the
\* response's value; the result has every declared field.
C15_BackfillDefaults ==
  ParsedObject =>
    /\ ~parsed.parse.raised /\ ~parsed.result.raised
    /\ DOMAIN parsed.result.value = ResultFields
    /\ \A f \in (NumericFields \cup CollectionFields \cup {"experience_level"}) :
         LET expected ==
               IF f \in DOMAIN ResponseObject THEN ResponseObject[f]
               ELSE IF f = "overall_score" THEN 50
               ELSE IF f = "confidence_score" THEN 5000
               ELSE IF f = "experience_years" THEN 0
               ELSE IF f = "experience_level" THEN "entry"
               ELSE <<>>
         IN /\ parsed.parse.value[f] = expected
            /\ parsed.result.value[f] = expected

C15_Witness ==
  /\ ParsedObject
  /\ parse_input = <<FENCE_JSON, LBRACE, "os150", RBRACE>>
  /\ parsed.result.value.overall_score = 150
  /\ parsed.result.value.confidence_score = 5000
  /\ parsed.result.value.experience_years = 0

\* extract_text has returned a result for an existing PDF file
PdfResult ==
  /\ op = "extract"
  /\ extraction # Pending
  /\ document.exists
  /\ lower(document.suffix) = ".pdf"
  /\ ~extraction.outcome.raised
\* C16: for a PDF document, whenever the result returned by extract_text has
\* confidence below the 0.7 threshold, its needs_vlm_processing flag is true,
\* whichever of the two strategies produced it.
C16_LowConfidenceNeedsFallback ==
  PdfResult =>
    (extraction.outcome.value.confidence < MIN_CONFIDENCE_THRESHOLD =>
       extraction.outcome.value.needs_vlm_processing)

\* r is the result a strategy computed, whatever its fallback flag has become
SameResult(r, computed) ==
  /\ r.text = computed.text
  /\ r.method = computed.method
  /\ r.confidence = computed.confidence
\* C17: for a PDF document, pdfplumber (B) is run only when the confidence of
\* PyPDF2 (A) does not exceed 0.7; A's result is returned when its confidence
\* exceeds 0.7, and otherwise the result with the higher confidence, A's on a
\* tie, so the returned confidence is max(A, B) whenever B was run.
C17_PdfStrategyChoice ==
  (PdfResult /\ PDF_PROCESSING_AVAILABLE) =>
    LET calls == extraction.calls
        r == extraction.outcome.value
    IN /\ Len(calls) \in {1, 2}
       /\ calls[1].method = "direct_pdf_pypdf2"
       /\ Len(calls) = 2 => calls[1].confidence <= MIN_CONFIDENCE_THRESHOLD
       /\ calls[1].confidence > MIN_CONFIDENCE_THRESHOLD => SameResult(r, calls[1])
       /\ Len(calls) = 2 =>
            /\ calls[2].method = "direct_pdf_pdfplumber"
            /\ SameResult(r, IF calls[2].confidence > calls[1].confidence
                               THEN calls[2] ELSE calls[1])
            /\ r.confidence = Max(calls[1].confidence, calls[2].confidence)
       /\ Len(calls) = 1 => calls[1].confidence > MIN_CONFIDENCE_THRESHOLD

\* PyPDF2 scores exactly 0.7, so pdfplumber is run; it ties and A is returned
C17_Witness ==
  /\ PdfResult
  /\ Len(extraction.calls) = 2
  /\ extraction.calls[1].confidence = MIN_CONFIDENCE_THRESHOLD
  /\ extraction.calls[2].confidence = MIN_CONFIDENCE_THRESHOLD
  /\ extraction.outcome.value.method = "direct_pdf_pypdf2"

\* every library or encoding that extract_text tries on the file fails
EveryStrategyFails ==
  /\ document.exists
  /\ lower(document.suffix) \in {".pdf", ".doc", ".docx", ".txt"}
  /\ \A reader \in DOMAIN document.reads : document.reads[reader].exc # None
\* C18: when every extraction strategy for a document of a supported format
\* fails (PDF: both strategies; Word: the single strategy; plain text: every
\* encoding), extract_text does not raise: it returns a result with
\* confidence 0 and needs_vlm_processing true.
C18_AllStrategiesFailedGivesFallback ==
  (op = "extract" /\ extraction # Pending /\ EveryStrategyFails) =>
    /\ ~extraction.outcome.raised
    /\ extraction.outcome.value.confidence = 0
    /\ extraction.outcome.value.needs_vlm_processing

\* the formats extract_text routes to an extractor
SupportedFormat == lower(document.suffix) \in {".pdf", ".doc", ".docx", ".txt"}
\* the error extract_text raised has this status code and this detail
RaisedHttp(status_code, detail) ==
  /\ extraction.outcome.raised
  /\ extraction.outcome.exc = "HTTPException"
  /\ extraction.outcome.status_code = status_code
  /\ extraction.outcome.detail = detail
\* the file exists, has a supported format and every read of it succeeds
WellFormed ==
  /\ document.exists
  /\ SupportedFormat
  /\ \A reader \in DOMAIN document.reads : document.reads[reader].exc = None
\* C19: extract_text raises the not-found error (404) exactly when the file
\* does not exist and the unsupported-format error (400) exactly when it
\* exists with a format outside pdf, doc, docx, txt; both reach the caller
\* with their own status; and for a well-formed document of a supported
\* format extract_text returns a result without raising.
C19_ErrorsByKind ==
  (op = "extract" /\ extraction # Pending) =>
    /\ RaisedHttp(404, "File not found") <=> ~document.exists
    /\ RaisedHttp(400, "Unsupported file type") <=>
         (document.exists /\ ~SupportedFormat)
    /\ WellFormed => ~extraction.outcome.raised

\* _assess_text_quality has returned for the cleaned text it was given
Scored == op = "score" /\ quality # Pending
\* C20: for every cleaned text the quality score is in [0,1]; it is exactly
\* 0.0 whenever the text has fewer than 100 characters, and exactly 0.2
\* whenever the text has at least 100 characters but fewer than 20 words,
\* whatever other features the text has.
C20_QualityScoreRange ==
  Scored =>
    /\ ~quality.raised
    /\ quality.value \in 0..10000
    /\ scored_text.length < 100 => quality.value = 0
    /\ (scored_text.length >= 100 /\ scored_text.words < 20) => quality.value = 2000

\* 100 characters in 19 words that match every pattern still score 0.2
C20_Witness ==
  /\ Scored
  /\ scored_text.length = 100
  /\ scored_text.words = 19
  /\ resume_pattern_matches(scored_text) = 3
  /\ scored_text.email
  /\ scored_text.phone
  /\ quality.value = 2000

\* a scored text as analyze_resume_complete receives it from the extraction
\* of a plain-text or Word file: the flag is never set for these formats
AsExtractionResult ==
  [text |-> scored_text, confidence |-> quality.value, needs_vlm_processing |-> FALSE]
\* C21: any well-formed text of 600 words that contains the headers
\* Experience, Education and Skills and an e-mail address gets a quality
\* score >= 0.7 and is therefore routed to text mode.
C21_ResumeScoresAtLeastThreshold ==
  (/\ Scored
   /\ scored_text.words = 600
   /\ {"experience", "education", "skills"} \subseteq scored_text.keywords
   /\ scored_text.email
   /\ 10 * scored_text.special <= scored_text.length) =>
    /\ quality.value >= 7000
    /\ Route(AsExtractionResult) = "text"

\* extract_text has returned or raised for an existing plain-text file whose
\* utf-8 read yields a text of 50 words without any resume keyword
FiftyWordTextFile ==
  /\ op = "extract"
  /\ extraction # Pending
  /\ document.exists
  /\ lower(document.suffix) = ".txt"
  /\ document.reads["utf-8"].exc = None
  /\ document.reads["utf-8"].text.words = 50
  /\ document.reads["utf-8"].text.keywords = {}
\* C22: extracting a plain-text file of 50 words that contains no resume
\* keyword yields a result with confidence <= 0.2 and needs_vlm_processing
\* true.
C22_FiftyWordsNeedFallback ==
  FiftyWordTextFile =>
    /\ ~extraction.outcome.raised
    /\ extraction.outcome.value.confidence <= 2000
    /\ extraction.outcome.value.needs_vlm_processing

\* the batch of five has returned a result for every key, none of them the
\* degraded result of a failed analysis
FiveGoodResults ==
  /\ DOMAIN batch_return.results = 1..5
  /\ \A file_key \in DOMAIN batch_return.results :
       /\ batch_return.results[file_key].processing_method # "batch_analysis_failed"
       /\ batch_return.results[file_key].parsing_error = None
\* entries started after waiting for a slot / entries of the given set that
\* have finished
Latecomers == {k \in 4..5 : pc[k] # "created"}
Finished(entries) == {k \in entries : pc[k] = "done"}
ProviderOutage ==
  \/ prompt_store.fault # "none"
  \/ ~get_default_prompt(prompt_call.prompt_type, prompt_call.customer_id).found
\* every field of the fallback template of the purpose is a variable that the
\* caller supplies
SameVariables(prompt_type) ==
  \A i \in 1..Len(FallbackContent(prompt_type)) :
    FallbackContent(prompt_type)[i].kind = "field" =>
      FallbackContent(prompt_type)[i].body
        \in DOMAIN PromptVariables(prompt_type, prompt_call.has_job_context)
\* C24: for each purpose the core uses (text analysis, vision analysis,
\* readiness assessment), if the Prompt Provider raises or holds no prompt,
\* the prompt is rendered from the literal fallback template with the same
\* variables: a Prompt Provider outage alone never makes get_prompt_content
\* fail.
C24_FallbackPromptOnOutage ==
  (op = "prompt" /\ prompt_content # Pending) =>
    /\ ~prompt_content.raised
    /\ SameVariables(prompt_call.prompt_type)
    /\ ProviderOutage =>
         /\ Len(prompt_content.value) = Len(FallbackContent(prompt_call.prompt_type))
         /\ \A i \in 1..Len(prompt_content.value) :
              LET segment == FallbackContent(prompt_call.prompt_type)[i]
              IN prompt_content.value[i] =
                   IF segment.kind = "field"
                     THEN PromptVariables(prompt_call.prompt_type,
                                          prompt_call.has_job_context)[segment.body]
                   ELSE segment.body

\* the lookup raised for a readiness prompt and the fallback was rendered
C24_Witness ==
  /\ op = "prompt"
  /\ prompt_content # Pending
  /\ prompt_store.fault = "lookup"
  /\ prompt_call.prompt_type = "gemini_qa_assessment"
  /\ ~prompt_content.raised
  /\ prompt_content.value[1] = "You are an interview preparation specialist"

\* entries of the batch whose analysis failed and was replaced by the
\* degraded failure result
FailedEntries ==
  {k \in Keys : /\ ~task_result[k].raised
                /\ task_result[k].value.analysis.processing_method = "batch_analysis_failed"}
\* C25: after a batch settles, its aggregate counts satisfy attempted =
\* number of submitted keys and succeeded + failed = attempted, where failed
\* is exactly the number of entries whose analysis failed and succeeded the
\* number of the others.
C25_AggregateCounts ==
  Returned =>
    /\ batch_return.metadata.batch_size = Cardinality(Keys)
    /\ batch_return.metadata.successful_analyses + batch_return.metadata.failed_analyses
         = batch_return.metadata.batch_size
    /\ batch_return.metadata.failed_analyses = Cardinality(FailedEntries)
    /\ batch_return.metadata.successful_analyses = Cardinality(Keys \ FailedEntries)

\* the attempts of one _generate_content_async call are numbered 1, 2, 3 and
\* each follows a failed one: entry i of the log continues the call of
\* entry i - 1
ContinuesCall(i) ==
  /\ provider_log[i].phase = provider_log[i - 1].phase
  /\ provider_log[i - 1].outcome = "failed"
  /\ provider_log[i].attempt = provider_log[i - 1].attempt + 1
\* entry i of the log opens the readiness call after the analysis call has
\* returned text
OpensReadiness(i) ==
  /\ provider_log[i].phase = "qa"
  /\ provider_log[i - 1].phase = "analysis"
  /\ provider_log[i - 1].outcome = "ok"
  /\ provider_log[i].attempt = 1
\* C26: a single-document analysis makes its provider invocations strictly
\* one after another: one analysis invocation, then at most one readiness
\* invocation that starts only after the analysis invocation has returned a
\* result; at no time are two provider calls of the document in flight.
C26_SequentialInvocations ==
  op = "complete" =>
    /\ \A i \in DOMAIN provider_log :
         IF i = 1
           THEN provider_log[i].phase = "analysis" /\ provider_log[i].attempt = 1
           ELSE ContinuesCall(i) \/ OpensReadiness(i)
    /\ pc[1] = "qa" =>
         /\ analysis[1] # Blank
         /\ provider_log # <<>>
         /\ provider_log[Len(provider_log)].outcome = "ok" =>
              provider_log[Len(provider_log)].phase = "analysis"
    /\ pc[1] = "analysis" => analysis[1] = Blank
    /\ pc[1] \in {"created", "done"} =>
         \/ provider_log = <<>>
         \/ provider_log[Len(provider_log)].outcome = "ok"
         \/ provider_log[Len(provider_log)].attempt = max_retries
C26_Witness ==
  /\ op = "complete"
  /\ pc[1] = "done"
  /\ \E i, j \in DOMAIN provider_log :
       /\ provider_log[i].phase = "analysis" /\ provider_log[i].outcome = "failed"
       /\ provider_log[j].phase = "qa" /\ provider_log[j].attempt = 2
       /\ provider_log[j].outcome = "ok"

\* Unicode category Cc
ControlCharacters == {"LF", "CR", "NUL", "U+0080"}
\* Unicode category Co
PrivateUseArea == {"U+F0B7", "U+E000"}
Cleaned == op = "clean" /\ "value" \in DOMAIN clean_result
\* C27: for every raw text, the text returned by _clean_text contains no
\* control character, no private-use-area character and no two consecutive
\* whitespace characters.
C27_CleanTextIsClean ==
  Cleaned =>
    /\ \A i \in DOMAIN clean_result.value :
         /\ clean_result.value[i] \notin ControlCharacters
         /\ clean_result.value[i] \notin PrivateUseArea
    /\ \A i \in 1..(Len(clean_result.value) - 1) :
         ~(clean_result.value[i] \in Whitespace /\ clean_result.value[i + 1] \in Whitespace)

\* the TextExtractionResults that extract_text or batch_extract_text has
\* produced in this state
ProducedResults ==
  (IF op = "extract" /\ "outcome" \in DOMAIN extraction /\ ~extraction.outcome.raised
     THEN {extraction.outcome.value} ELSE {})
  \cup
  (IF op = "batch_extract" /\ "value" \in DOMAIN batch_extraction
     THEN {batch_extraction.value[d] : d \in DOMAIN batch_extraction.value} ELSE {})
\* C28: every result produced by extract_text or batch_extract_text has
\* 0 <= confidence <= 1 and recommends the fallback only when its confidence
\* is below 0.7, so that the text/vision routing of such a result is
\* determined by its confidence alone.
C28_FallbackOnlyBelowThreshold ==
  \A r \in ProducedResults :
    /\ r.confidence >= 0
    /\ r.confidence <= 10000
    /\ r.needs_vlm_processing => r.confidence < 7000
    /\ (Route(r) = "vision") = (r.confidence < ROUTING_THRESHOLD)
C28_Witness ==
  /\ op = "batch_extract"
  /\ \E r, f \in ProducedResults :
       /\ r.needs_vlm_processing /\ r.confidence > 0
       /\ f.method = "batch_extraction_failed" /\ f.needs_vlm_processing

\* key k is inside analyze_resume_complete before and after the step, and
\* the step is one of its own
StaysInPipeline(k) ==
  /\ pc[k] \in {"analysis", "qa"}
  /\ pc'[k] \in {"analysis", "qa"}
  /\ provider_calls'[k] # provider_calls[k]
\* C29: a batch entry holds one and the same limiter slot for its whole
\* pipeline (the analysis invocation with its retries and backoff waits, and
\* the optional readiness invocation), so at any moment of a batch at most 3
\* provider calls are outstanding, and one entry makes at most 6 provider
\* attempts (3 for analysis, 3 for readiness).
C29_OneSlotPerPipeline ==
  /\ [](/\ Cardinality(InFlight) <= 3
        /\ semaphore = max_concurrent - Cardinality(InFlight)
        /\ \A k \in Keys :
             /\ provider_calls[k] <= 6
             /\ pc[k] = "analysis" => provider_calls[k] = attempt[k]
             /\ pc[k] \in {"created", "analysis"} => provider_calls[k] < 3
             /\ pc[k] = "qa" => provider_calls[k] - attempt[k] \in 1..3)
  /\ [][\A k \in Keys :
          /\ StaysInPipeline(k) => semaphore' = semaphore
          /\ (pc[k] \in {"analysis", "qa"} /\ pc'[k] = "done")
               => semaphore' = semaphore + 1
          /\ pc[k] = "qa" => pc'[k] \in {"qa", "done"}
          /\ pc[k] = "done" => pc'[k] = "done"]_vars
C29_Witness ==
  /\ \E k \in Keys : pc[k] = "done" /\ provider_calls[k] = 6
  /\ Cardinality(InFlight) = 3
  /\ \E k \in Keys : pc[k] = "qa" /\ attempt[k] = 2 /\ provider_calls[k] = 5

ReadinessFields ==
  {"qa_readiness_score", "question_predictions", "interview_recommendations"}
\* C30: in analyze_resume_complete the readiness assessment is invoked only
\* when a job context with a non-empty question list is supplied; whether
\* the assessment succeeds or degrades, it changes only the three readiness
\* fields of the analysis, leaves every other field (overall_score and
\* processing_method among them) unchanged, and the analysis is still
\* returned to the caller.
C30_ReadinessChangesOnlyItsFields ==
  /\ [](op = "complete" =>
          ((pc[1] = "qa" \/ \E i \in DOMAIN provider_log : provider_log[i].phase = "qa")
             => WantsQa(job_context)))
  /\ [][(op = "complete" /\ pc[1] = "qa" /\ pc'[1] = "done") =>
          /\ ~task_result'[1].raised
          /\ DOMAIN task_result'[1].value = DOMAIN analysis[1]
          /\ \A field \in DOMAIN analysis[1] \ ReadinessFields :
               task_result'[1].value[field] = analysis[1][field]]_vars
====
